---- MODULE Spec2Model ----
(***************************************************************************)
(* MayaHydraSceneDelegate: the adapter tables, the pending-work queues,    *)
(* the per-frame synchronisation pass (PreFrame), the render-item delta    *)
(* reconciliation (HandleCompleteViewportScene) and the pull queries.      *)
(* The delegate is single threaded: every operation is one atomic action.  *)
(***************************************************************************)
EXTENDS Integers, Sequences, FiniteSets, TLC

(* ------------------------------ bounds --------------------------------- *)
\* most entries pending in the queues, all together, while the host enqueues more
MaxQueue == 3
\* longest removal list of one render-item delta batch
MaxRemovals == 1
\* most changed items in one render-item delta batch
MaxItems == 1

(* --------------------------- the host scene ---------------------------- *)
NullObj == "null"
\* U1 is a light owned by the USD bridge
LightNodes == {"L1", "L2", "U1"}
\* the adapter of camera C2 reports itself unsupported
CameraNodes == {"C1", "C2"}
\* S1 and S2 are bound to M1, S3 has no material binding, S4 is bound to M2
MeshNodes == {"S1", "S2", "S3", "S4"}
TransformNodes == {"T1"}
\* the adapter of shading engine M2 reports itself unsupported
ShadingEngines == {"M1", "M2"}
DagNodes == LightNodes \cup CameraNodes \cup MeshNodes \cup TransformNodes
Objects == DagNodes \cup ShadingEngines
\* child nodes of a transform, in child order; S1 is instanced below T1
Children(node) == IF node = "T1" THEN <<"L1", "S1">> ELSE << >>
ShapesDirectlyBelow(node) == IF node = "T1" THEN <<"L1", "S1">> ELSE << >>

NodeKind(obj) ==
    IF obj \in LightNodes THEN "light"
    ELSE IF obj \in CameraNodes THEN "camera"
    ELSE IF obj \in MeshNodes THEN "mesh"
    ELSE IF obj \in TransformNodes THEN "transform"
    ELSE IF obj \in ShadingEngines THEN "shadingEngine"
    ELSE "null"

\* the render items of the host's viewport scene
RenderItems == {"ri0", "ri1", "ri2"}
InternalObjectId(ri) == IF ri = "ri1" THEN 1 ELSE IF ri = "ri2" THEN 2 ELSE 0
FastIds == {InternalObjectId(ri) : ri \in RenderItems}
RenderItemName(ri) == IF ri = "ri1" THEN "StandardShadedItem" ELSE "wire"
RenderItemPrimitive(ri) == IF ri = "ri1" THEN "triangles" ELSE "lines"
SourceDagPath(ri) == IF ri = "ri0" THEN NullObj ELSE "S1"
\* change flags of a reported item (0 is the empty set)
\* the render items of shape S1, which the host moves
MovingItems == {"ri1", "ri2"}
ItemFlags == {{}, {"geom"}, {"changedEffect"}, {"changedMatrix"}}

(* ------------------------------- paths --------------------------------- *)
EmptyPath == << >>
PropToken == ".prop"
IsPropertyPath(id) == Len(id) > 0 /\ id[Len(id)] = PropToken
PrimPathOf(id) == IF IsPropertyPath(id) THEN SubSeq(id, 1, Len(id) - 1) ELSE id
GetPrimPath(node, isSprim) == IF isSprim THEN <<"sprim", node>> ELSE <<"rprim", node>>
GetMaterialPath(obj) == <<"material", obj>>
GetRenderItemPrimPath(ri) ==
    IF InternalObjectId(ri) = 0 THEN EmptyPath ELSE GetPrimPath(SourceDagPath(ri), FALSE)
MayaDefaultMaterialPath == <<"__maya_default_material__">>
FallbackMaterial == EmptyPath
kInvalidMaterial == EmptyPath
kInvalidId == 0

RebuildFlagPrim == "RebuildFlagPrim"
RebuildFlagCallbacks == "RebuildFlagCallbacks"

(* ------------------------------ state ---------------------------------- *)
VARIABLES
    shapeAdapters, lightAdapters, cameraAdapters, materialAdapters,
    renderItemsAdapters, renderItemsAdaptersFast,
    adapters,
    lightsToAdd, addedNodes, adaptersToRecreate, adaptersToRebuild, materialTagsChanged,
    useDefaultMaterial, xRayEnabled, isPlaybackRunning,
    callbacks,
    useMeshAdapter, isHdSt, lightsEnabled,
    nodeStatus, playing, worldMatrix, reported,
    frame,
    calls, last

delegateVars ==
    <<shapeAdapters, lightAdapters, cameraAdapters, materialAdapters,
      renderItemsAdapters, renderItemsAdaptersFast, adapters,
      lightsToAdd, addedNodes, adaptersToRecreate, adaptersToRebuild, materialTagsChanged,
      useDefaultMaterial, xRayEnabled, isPlaybackRunning, callbacks>>
configVars == <<useMeshAdapter, isHdSt, lightsEnabled>>
hostVars == <<nodeStatus, playing, worldMatrix, reported>>
vars == <<delegateVars, configVars, hostVars, frame, calls, last>>

tableVars ==
    <<shapeAdapters, lightAdapters, cameraAdapters, materialAdapters,
      renderItemsAdapters, renderItemsAdaptersFast>>
queueVars ==
    <<lightsToAdd, addedNodes, adaptersToRecreate, adaptersToRebuild, materialTagsChanged>>

\* the delegate as one record, the form the operations below transform
Self ==
    [ shapeAdapters |-> shapeAdapters, lightAdapters |-> lightAdapters,
      cameraAdapters |-> cameraAdapters, materialAdapters |-> materialAdapters,
      renderItemsAdapters |-> renderItemsAdapters,
      renderItemsAdaptersFast |-> renderItemsAdaptersFast,
      adapters |-> adapters,
      lightsToAdd |-> lightsToAdd, addedNodes |-> addedNodes,
      adaptersToRecreate |-> adaptersToRecreate, adaptersToRebuild |-> adaptersToRebuild,
      materialTagsChanged |-> materialTagsChanged,
      useDefaultMaterial |-> useDefaultMaterial, xRayEnabled |-> xRayEnabled,
      isPlaybackRunning |-> isPlaybackRunning, callbacks |-> callbacks,
      useMeshAdapter |-> useMeshAdapter, isHdSt |-> isHdSt, lightsEnabled |-> lightsEnabled,
      nodeStatus |-> nodeStatus, worldMatrix |-> worldMatrix,
      calls |-> << >>, step |-> "", returned |-> FALSE ]

Commit(d) ==
    /\ shapeAdapters' = d.shapeAdapters
    /\ lightAdapters' = d.lightAdapters
    /\ cameraAdapters' = d.cameraAdapters
    /\ materialAdapters' = d.materialAdapters
    /\ renderItemsAdapters' = d.renderItemsAdapters
    /\ renderItemsAdaptersFast' = d.renderItemsAdaptersFast
    /\ adapters' = d.adapters
    /\ lightsToAdd' = d.lightsToAdd
    /\ addedNodes' = d.addedNodes
    /\ adaptersToRecreate' = d.adaptersToRecreate
    /\ adaptersToRebuild' = d.adaptersToRebuild
    /\ materialTagsChanged' = d.materialTagsChanged
    /\ useDefaultMaterial' = d.useDefaultMaterial
    /\ xRayEnabled' = d.xRayEnabled
    /\ isPlaybackRunning' = d.isPlaybackRunning
    /\ callbacks' = d.callbacks
    /\ calls' = d.calls
    /\ UNCHANGED configVars

(* ------------------------ maps and the call log ------------------------ *)
EmptyMap == << >>
Has(m, k) == k \in DOMAIN m
\* std::unordered_map::insert / emplace: an existing key keeps its value
MapInsert(m, k, v) == IF k \in DOMAIN m THEN m ELSE [x \in DOMAIN m \cup {k} |-> IF x = k THEN v ELSE m[x]]
MapErase(m, k) == [x \in DOMAIN m \ {k} |-> m[x]]
Range(m) == {m[k] : k \in DOMAIN m}

Ev(d, ev, id, arg) == [ev |-> ev, id |-> id, arg |-> arg, step |-> d.step]
Log(d, ev, id, arg) == [d EXCEPT !.calls = Append(@, Ev(d, ev, id, arg))]
AtStep(d, s) == [d EXCEPT !.step = s]

TableNames ==
    <<"shapeAdapters", "renderItemsAdapters", "cameraAdapters", "lightAdapters",
      "materialAdapters">>
Referenced(d) ==
    Range(d.shapeAdapters) \cup Range(d.lightAdapters) \cup Range(d.cameraAdapters)
    \cup Range(d.materialAdapters) \cup Range(d.renderItemsAdapters)
    \cup Range(d.renderItemsAdaptersFast)
\* the tables hold shared_ptr: an adapter no table refers to is destroyed
Release(d) ==
    [d EXCEPT !.adapters = [u \in (DOMAIN d.adapters) \cap Referenced(d) |-> d.adapters[u]]]
\* heap addresses are arbitrary: a new adapter takes the slot named after its
\* kind and node (or fast id) when that slot is free, the next free one otherwise
HomeSlot(a) ==
    IF a.kind = "light" THEN (IF a.node = "L1" THEN 1 ELSE 2)
    ELSE IF a.kind = "camera" THEN 3
    ELSE IF a.kind = "shape"
         THEN (IF a.node = "S1" THEN 4 ELSE IF a.node = "S2" THEN 8
               ELSE IF a.node = "S3" THEN 9 ELSE 10)
    ELSE IF a.kind = "material" THEN 5
    ELSE 5 + a.fastId
NewUid(d, a) ==
    IF HomeSlot(a) \notin DOMAIN d.adapters THEN HomeSlot(a)
    ELSE CHOOSE u \in 11..(11 + Cardinality(DOMAIN d.adapters)) :
            /\ u \notin DOMAIN d.adapters
            /\ \A v \in 11..(u - 1) : v \in DOMAIN d.adapters

(* ------------------- the adapters' own operations ---------------------- *)
NewAdapter(kind, id, node, fastId) ==
    [ kind |-> kind, id |-> id, node |-> node, fastId |-> fastId,
      populated |-> FALSE, callbacks |-> FALSE, transform |-> 0,
      lighting |-> "unset", material |-> kInvalidMaterial, xray |-> FALSE,
      instanced |-> FALSE, primitive |-> "none" ]
Construct(d, u, a) ==
    Log([d EXCEPT !.adapters = MapInsert(@, u, a)], "New", a.id, {a.kind})
Populate(d, u) ==
    Log([d EXCEPT !.adapters[u].populated = TRUE], "Populate", d.adapters[u].id, {})
RemovePrim(d, u) ==
    Log([d EXCEPT !.adapters[u].populated = FALSE], "RemovePrim", d.adapters[u].id, {})
\* the log notes whether the adapter had its callbacks when the call was made
CreateCallbacks(d, u) ==
    Log([d EXCEPT !.adapters[u].callbacks = TRUE], "CreateCallbacks", d.adapters[u].id,
        IF d.adapters[u].callbacks THEN {"registered"} ELSE {})
RemoveCallbacks(d, u) ==
    Log([d EXCEPT !.adapters[u].callbacks = FALSE], "RemoveCallbacks", d.adapters[u].id,
        IF d.adapters[u].callbacks THEN {"registered"} ELSE {})
MarkDirty(d, u, bits) == Log(d, "MarkDirty", d.adapters[u].id, bits)
SetLightingOn(d, u, on) ==
    Log([d EXCEPT !.adapters[u].lighting = IF on THEN "on" ELSE "off"],
        "SetLightingOn", d.adapters[u].id, {IF on THEN "on" ELSE "off"})
EnableXRayShadingMode(d, u, on) ==
    Log([d EXCEPT !.adapters[u].xray = on], "EnableXRayShadingMode", d.adapters[u].id,
        {IF on THEN "on" ELSE "off"})
IsSupported(node) == node \notin {"C2", "M2"}
IsUfeItemFromMayaUsd(node) == node = "U1"
MObjectHandleIsValid(d, obj) == obj # NullObj /\ d.nodeStatus[obj] # "invalid"
HasDagPath(d, obj) == obj \in DagNodes /\ d.nodeStatus[obj] = "dag"
\* the second DAG path to S1 runs through T1
NumberOfPaths(d, node) == IF node = "S1" /\ d.nodeStatus["T1"] = "dag" THEN 2 ELSE 1
ShapeMaterial(d, node) ==
    LET engine == IF node \in {"S1", "S2"} THEN "M1" ELSE IF node = "S4" THEN "M2" ELSE NullObj
    IN IF engine # NullObj /\ d.nodeStatus[engine] = "invalid" THEN NullObj ELSE engine
\* the shading engine GetShadingEngineNode finds for a render item
ShadingEngineOf(d, ri) ==
    IF HasDagPath(d, SourceDagPath(ri)) THEN ShapeMaterial(d, SourceDagPath(ri)) ELSE NullObj
\* the order in which loops over an adapter table or the render index visit it
KeyOrder ==
    <<GetPrimPath("S1", FALSE), GetPrimPath("S2", FALSE), GetPrimPath("S3", FALSE),
      GetPrimPath("S4", FALSE), GetPrimPath("L1", TRUE), GetPrimPath("L2", TRUE),
      GetPrimPath("C1", TRUE), GetMaterialPath("M1")>>
KeysOf(m) == SelectSeq(KeyOrder, LAMBDA k : k \in DOMAIN m)

(* ------------------------- results of a step --------------------------- *)
R(d, ok) == [d |-> d, ok |-> ok]
DagPath(node, inst) == [node |-> node, inst |-> inst]

(* --------------------------- adapter creation -------------------------- *)
CreatorNodeKind(kind) ==
    IF kind = "light" THEN "light" ELSE IF kind = "camera" THEN "camera" ELSE "mesh"

\* _CreateAdapter without the lookup of the identity in the target table
CreateAdapterUnchecked(d, node, kind, tbl, isSprim) ==
    IF NodeKind(node) # CreatorNodeKind(kind) \/ IsUfeItemFromMayaUsd(node) THEN R(d, FALSE)
    ELSE LET id == GetPrimPath(node, isSprim)
             a == [NewAdapter(kind, id, node, 0) EXCEPT
                       !.instanced = NumberOfPaths(d, node) > 1]
             u == NewUid(d, a)
             d1 == Construct(d, u, a)
         IN IF ~IsSupported(node) THEN R(Release(d1), FALSE)
            ELSE LET d2 == CreateCallbacks(Populate(d1, u), u)
                 IN R(Release([d2 EXCEPT ![tbl] = MapInsert(@, id, u)]), TRUE)
\* _CreateAdapter: the filters, the duplicate check, IsSupported, then
\* Populate, CreateCallbacks and the insertion
CreateAdapter(d, node, kind, tbl, isSprim) ==
    IF NodeKind(node) # CreatorNodeKind(kind) THEN R(d, FALSE)
    ELSE IF IsUfeItemFromMayaUsd(node) THEN R(d, FALSE)
    ELSE LET id == GetPrimPath(node, isSprim) IN
         IF Has(d[tbl], id) THEN R(d, FALSE)
         ELSE LET a == [NewAdapter(kind, id, node, 0) EXCEPT
                            !.instanced = NumberOfPaths(d, node) > 1]
                  u == NewUid(d, a)
                  d1 == Construct(d, u, a)
              IN IF ~IsSupported(node) THEN R(Release(d1), FALSE)
                 ELSE LET d2 == CreateCallbacks(Populate(d1, u), u)
                      IN R([d2 EXCEPT ![tbl] = MapInsert(@, id, u)], TRUE)

CreateLightAdapter(d, node) == CreateAdapter(d, node, "light", "lightAdapters", TRUE)
CreateCameraAdapter(d, node) == CreateAdapter(d, node, "camera", "cameraAdapters", TRUE)
CreateShapeAdapter(d, node) == CreateAdapter(d, node, "shape", "shapeAdapters", FALSE)

\* _CreateMaterial without the IsSupported test
CreateMaterialUnchecked(d, id, obj) ==
    IF NodeKind(obj) # "shadingEngine" THEN R(d, FALSE)
    ELSE LET u == NewUid(d, NewAdapter("material", id, obj, 0))
             d1 == Construct(d, u, NewAdapter("material", id, obj, 0))
             d2 == IF d1.xRayEnabled THEN EnableXRayShadingMode(d1, u, d1.xRayEnabled) ELSE d1
             d3 == CreateCallbacks(Populate(d2, u), u)
         IN R(Release([d3 EXCEPT !.materialAdapters = MapInsert(@, id, u)]), TRUE)
\* _CreateMaterial
CreateMaterial(d, id, obj) ==
    IF NodeKind(obj) # "shadingEngine" THEN R(d, FALSE)
    ELSE LET u == NewUid(d, NewAdapter("material", id, obj, 0))
             d1 == Construct(d, u, NewAdapter("material", id, obj, 0))
         IN IF ~IsSupported(obj) THEN R(Release(d1), FALSE)
            ELSE LET d2 == IF d1.xRayEnabled
                           THEN EnableXRayShadingMode(d1, u, d1.xRayEnabled) ELSE d1
                     d3 == CreateCallbacks(Populate(d2, u), u)
                 IN R(Release([d3 EXCEPT !.materialAdapters = MapInsert(@, id, u)]), TRUE)

InsertDag(d, dag) ==
    IF NodeKind(dag.node) = "transform" THEN d
    ELSE IF IsUfeItemFromMayaUsd(dag.node) THEN d
    ELSE LET rl == IF d.lightsEnabled THEN CreateLightAdapter(d, dag.node) ELSE R(d, FALSE) IN
         IF rl.ok THEN rl.d
         ELSE LET rc == CreateCameraAdapter(rl.d, dag.node) IN
              IF rc.ok THEN rc.d
              ELSE IF NumberOfPaths(rc.d, dag.node) > 1 /\ dag.inst > 0 THEN rc.d
              ELSE LET rs == CreateShapeAdapter(rc.d, dag.node) IN
                   IF ~rs.ok THEN rs.d
                   ELSE LET material == ShapeMaterial(d, dag.node)
                            materialId == GetMaterialPath(material)
                        IN IF material # NullObj /\ ~Has(rs.d.materialAdapters, materialId)
                           THEN CreateMaterial(rs.d, materialId, material).d
                           ELSE rs.d

(* ------------------------------ removal -------------------------------- *)
RECURSIVE RemoveFromTables(_, _, _)
\* the _RemoveAdapter template: the first table holding id has the adapter's
\* callbacks and prim removed and the entry of that table erased
RemoveFromTables(d, id, tbls) ==
    IF tbls = << >> THEN R(d, FALSE)
    ELSE IF Has(d[Head(tbls)], id)
         THEN LET u == d[Head(tbls)][id]
                  d1 == RemovePrim(RemoveCallbacks(d, u), u)
                  d2 == Log(d1, "Erase", id, {Head(tbls)})
              IN R(Release([d2 EXCEPT ![Head(tbls)] = MapErase(@, id)]), TRUE)
         ELSE RemoveFromTables(d, id, Tail(tbls))

RemoveAdapterTables ==
    <<"renderItemsAdapters", "shapeAdapters", "lightAdapters", "materialAdapters">>
\* RemoveAdapter that says nothing when no table holds the identity
RemoveAdapterUnwarned(d, id) == RemoveFromTables(d, id, RemoveAdapterTables).d
RemoveAdapter(d, id) ==
    LET r == RemoveFromTables(d, id, RemoveAdapterTables)
    IN IF r.ok THEN r.d ELSE Log(r.d, "Warn", id, {"RemoveAdapter"})

(* --------------------------- pending work ------------------------------ *)
IndexOfId(q, id) ==
    IF \E i \in 1..Len(q) : q[i][1] = id
    THEN CHOOSE i \in 1..Len(q) : q[i][1] = id /\ \A j \in 1..(i - 1) : q[j][1] # id
    ELSE 0

RecreateAdapterOnIdle(d, id, obj) ==
    LET i == IndexOfId(d.adaptersToRecreate, id)
    IN IF i > 0 THEN [d EXCEPT !.adaptersToRecreate[i] = <<id, obj>>]
       ELSE [d EXCEPT !.adaptersToRecreate = Append(@, <<id, obj>>)]

RebuildAdapterOnIdle(d, id, flags) ==
    LET i == IndexOfId(d.adaptersToRebuild, id)
    IN IF i > 0 THEN [d EXCEPT !.adaptersToRebuild[i] = <<id, @[2] \cup flags>>]
       ELSE [d EXCEPT !.adaptersToRebuild = Append(@, <<id, flags>>)]

MaterialTagChanged(d, id) ==
    IF \E i \in 1..Len(d.materialTagsChanged) : d.materialTagsChanged[i] = id THEN d
    ELSE [d EXCEPT !.materialTagsChanged = Append(@, id)]

HasLightAdapterCreator(obj) == NodeKind(obj) = "light"

OnDagNodeAdded(d, obj) ==
    IF obj = NullObj THEN d
    ELSE IF IsUfeItemFromMayaUsd(obj) THEN d
    ELSE IF HasLightAdapterCreator(obj) THEN [d EXCEPT !.lightsToAdd = Append(@, obj)]
    ELSE IF d.useMeshAdapter THEN [d EXCEPT !.addedNodes = Append(@, obj)]
    ELSE d

Without(q, obj) == SelectSeq(q, LAMBDA x : x # obj)
\* OnDagNodeRemoved that purges the light queue only
OnDagNodeRemovedLights(d, obj) == [d EXCEPT !.lightsToAdd = Without(@, obj)]
OnDagNodeRemoved(d, obj) ==
    IF Without(d.lightsToAdd, obj) # d.lightsToAdd
    THEN [d EXCEPT !.lightsToAdd = Without(@, obj)]
    ELSE IF d.useMeshAdapter THEN [d EXCEPT !.addedNodes = Without(@, obj)]
    ELSE d

(* ------------------------------ queries -------------------------------- *)
RECURSIVE FindUid(_, _, _)
\* the _FindAdapter / _GetValue probe: the adapter of the first table, in the
\* order given, that holds id; 0 when none does
FindUid(d, id, tbls) ==
    IF tbls = << >> THEN 0
    ELSE IF Has(d[Head(tbls)], id) THEN d[Head(tbls)][id]
    ELSE FindUid(d, id, Tail(tbls))

GetDefaultValue(type) == <<"default", type>>
GetValue(d, id, method, type, tbls) ==
    LET u == FindUid(d, id, tbls)
    IN IF u = 0 THEN GetDefaultValue(type) ELSE <<"adapter", u, method>>

GetMeshTopology(d, id) ==
    GetValue(d, id, "GetMeshTopology", "HdMeshTopology",
             <<"shapeAdapters", "renderItemsAdapters">>)
GetBasisCurvesTopology(d, id) ==
    GetValue(d, id, "GetBasisCurvesTopology", "HdBasisCurvesTopology",
             <<"shapeAdapters", "renderItemsAdapters">>)
GetSubdivTags(d, id) ==
    GetValue(d, id, "GetSubdivTags", "PxOsdSubdivTags", <<"shapeAdapters">>)
GetExtent(d, id) == GetValue(d, id, "GetExtent", "GfRange3d", <<"shapeAdapters">>)
GetTransform(d, id) ==
    GetValue(d, id, "GetTransform", "GfMatrix4d",
             <<"shapeAdapters", "renderItemsAdapters", "cameraAdapters", "lightAdapters">>)
SampleTransform(d, id) ==
    GetValue(d, id, "SampleTransform", "size_t",
             <<"shapeAdapters", "cameraAdapters", "lightAdapters">>)
Get(d, id) ==
    IF d.useMeshAdapter /\ IsPropertyPath(id)
    THEN GetValue(d, PrimPathOf(id), "GetInstancePrimvar", "VtValue", <<"shapeAdapters">>)
    ELSE GetValue(d, id, "Get", "VtValue",
                  <<"shapeAdapters", "renderItemsAdapters", "cameraAdapters",
                    "lightAdapters", "materialAdapters">>)
GetRenderTag(d, id) ==
    GetValue(d, PrimPathOf(id), "GetRenderTag", "TfToken",
             <<"shapeAdapters", "renderItemsAdapters">>)
GetPrimvarDescriptors(d, id) ==
    IF d.useMeshAdapter /\ IsPropertyPath(id)
    THEN GetValue(d, PrimPathOf(id), "GetInstancePrimvarDescriptors",
                  "HdPrimvarDescriptorVector", <<"shapeAdapters">>)
    ELSE GetValue(d, id, "GetPrimvarDescriptors", "HdPrimvarDescriptorVector",
                  <<"shapeAdapters", "renderItemsAdapters">>)
GetLightParamValue(d, id) ==
    GetValue(d, id, "GetLightParamValue", "VtValue", <<"lightAdapters">>)
GetCameraParamValue(d, id) ==
    GetValue(d, id, "GetCameraParamValue", "VtValue", <<"cameraAdapters">>)
GetInstanceIndices(d, id) ==
    GetValue(d, PrimPathOf(id), "GetInstanceIndices", "VtIntArray", <<"shapeAdapters">>)
GetInstancerId(d, id) ==
    IF IsPropertyPath(id) THEN GetDefaultValue("SdfPath")
    ELSE GetValue(d, id, "GetInstancerID", "SdfPath", <<"shapeAdapters">>)
GetVisible(d, id) ==
    GetValue(d, id, "GetVisible", "bool",
             <<"shapeAdapters", "renderItemsAdapters", "lightAdapters">>)
GetDoubleSided(d, id) ==
    GetValue(d, id, "GetDoubleSided", "bool", <<"shapeAdapters", "renderItemsAdapters">>)
GetCullStyle(d, id) ==
    GetValue(d, id, "GetCullStyle", "HdCullStyle", <<"shapeAdapters", "renderItemsAdapters">>)
GetDisplayStyle(d, id) ==
    GetValue(d, id, "GetDisplayStyle", "HdDisplayStyle",
             <<"shapeAdapters", "renderItemsAdapters">>)
GetPreviewMaterialResource(id) == <<"previewMaterial">> \o id
\* GetMaterialResource without the guard against an empty answer
GetMaterialResourceUnguarded(d, id) ==
    IF id = MayaDefaultMaterialPath THEN <<"mayaDefaultMaterial">>
    ELSE IF id = FallbackMaterial THEN GetPreviewMaterialResource(id)
    ELSE GetValue(d, id, "GetMaterialResource", "VtValue", <<"materialAdapters">>)
GetMaterialResource(d, id) ==
    IF id = MayaDefaultMaterialPath THEN <<"mayaDefaultMaterial">>
    ELSE IF id = FallbackMaterial THEN GetPreviewMaterialResource(id)
    ELSE LET ret == GetValue(d, id, "GetMaterialResource", "VtValue", <<"materialAdapters">>)
         IN IF ret = GetDefaultValue("VtValue") THEN GetPreviewMaterialResource(id) ELSE ret

\* GetMaterialId: the material path it returns and the delegate it leaves
\* (it creates a material adapter on demand)
V(d, value) == [d |-> d, value |-> value]
\* GetMaterialIdMesh without the tests of the binding and of the creation
GetMaterialIdMeshUnchecked(d, id) ==
    IF ~d.useMeshAdapter \/ ~Has(d.shapeAdapters, id) THEN V(d, FallbackMaterial)
    ELSE LET material == ShapeMaterial(d, d.adapters[d.shapeAdapters[id]].node)
             materialId == GetMaterialPath(material)
         IN IF Has(d.materialAdapters, materialId) THEN V(d, materialId)
            ELSE V(CreateMaterial(d, materialId, material).d, materialId)
GetMaterialIdMesh(d, id) ==
    IF ~d.useMeshAdapter THEN V(d, FallbackMaterial)
    ELSE IF ~Has(d.shapeAdapters, id) THEN V(d, FallbackMaterial)
    ELSE LET material == ShapeMaterial(d, d.adapters[d.shapeAdapters[id]].node)
             materialId == GetMaterialPath(material)
         IN IF material = NullObj THEN V(d, FallbackMaterial)
            ELSE IF Has(d.materialAdapters, materialId) THEN V(d, materialId)
            ELSE LET r == CreateMaterial(d, materialId, material)
                 IN V(r.d, IF r.ok THEN materialId ELSE FallbackMaterial)
GetMaterialId(d, id) ==
    IF d.useDefaultMaterial THEN V(d, MayaDefaultMaterialPath)
    ELSE IF Has(d.renderItemsAdapters, id)
         THEN LET a == d.adapters[d.renderItemsAdapters[id]]
              IN IF a.primitive = "lines" THEN V(d, FallbackMaterial)
                 ELSE IF a.material = kInvalidMaterial THEN V(d, FallbackMaterial)
                 ELSE IF Has(d.materialAdapters, a.material) THEN V(d, a.material)
                 ELSE GetMaterialIdMesh(d, id)
         ELSE GetMaterialIdMesh(d, id)

\* the render index: the rprims inserted and the material id each was synced with
RprimIds(d) ==
    SelectSeq(KeyOrder, LAMBDA k :
        \E u \in DOMAIN d.adapters :
            /\ d.adapters[u].id = k
            /\ d.adapters[u].kind \in {"shape", "renderItem"}
            /\ d.adapters[u].populated)
RprimMaterialId(d, id) == GetMaterialId(d, id).value

(* ------------------------ recreate and instancing ---------------------- *)
RECURSIVE MarkRprimsDirty(_, _, _)
MarkRprimsDirty(d, ids, materialId) ==
    IF ids = << >> THEN d
    ELSE MarkRprimsDirty(
             IF RprimMaterialId(d, Head(ids)) = materialId
             THEN Log(d, "MarkRprimDirty", Head(ids), {"DirtyMaterialId"}) ELSE d,
             Tail(ids), materialId)

\* RecreateAdapter that re-announces the light without testing its handle
RecreateAdapterUntested(d, id, obj) ==
    LET rl == RemoveFromTables(d, id, <<"lightAdapters">>)
        rs == IF d.useMeshAdapter THEN RemoveFromTables(d, id, <<"shapeAdapters">>)
              ELSE R(d, FALSE)
        rm == RemoveFromTables(d, id, <<"materialAdapters">>)
    IN IF rl.ok THEN OnDagNodeAdded(rl.d, obj)
       ELSE IF rs.ok
       THEN IF HasDagPath(rs.d, obj) /\ MObjectHandleIsValid(rs.d, obj)
            THEN InsertDag(rs.d, DagPath(obj, 0))
            ELSE Log(rs.d, "NotRecreated", id, {"shape"})
       ELSE IF rm.ok
       THEN LET d1 == MarkRprimsDirty(rm.d, RprimIds(rm.d), id)
            IN IF MObjectHandleIsValid(d1, obj)
               THEN CreateMaterial(d1, GetMaterialPath(obj), obj).d
               ELSE Log(d1, "NotRecreated", id, {"material"})
       ELSE Log(d, "Warn", id, {"RecreateAdapter"})
\* RecreateAdapter that tests the handle first and touches nothing when it is stale
RecreateAdapterValidFirst(d, id, obj) ==
    IF MObjectHandleIsValid(d, obj) THEN RecreateAdapterUntested(d, id, obj)
    ELSE Log(d, "NotRecreated", id, {"stale"})
RecreateAdapter(d, id, obj) ==
    LET rl == RemoveFromTables(d, id, <<"lightAdapters">>) IN
    IF rl.ok
    THEN IF MObjectHandleIsValid(rl.d, obj) THEN OnDagNodeAdded(rl.d, obj)
         ELSE Log(rl.d, "NotRecreated", id, {"light"})
    ELSE LET rs == IF d.useMeshAdapter THEN RemoveFromTables(d, id, <<"shapeAdapters">>)
                   ELSE R(d, FALSE) IN
    IF rs.ok
    THEN IF HasDagPath(rs.d, obj) /\ MObjectHandleIsValid(rs.d, obj)
         THEN InsertDag(rs.d, DagPath(obj, 0))
         ELSE Log(rs.d, "NotRecreated", id, {"shape"})
    ELSE LET rm == RemoveFromTables(d, id, <<"materialAdapters">>) IN
    IF rm.ok
    THEN LET d1 == MarkRprimsDirty(rm.d, RprimIds(rm.d), id)
         IN IF MObjectHandleIsValid(d1, obj)
            THEN CreateMaterial(d1, GetMaterialPath(obj), obj).d
            ELSE Log(d1, "NotRecreated", id, {"material"})
    ELSE Log(d, "Warn", id, {"RecreateAdapter"})

InstanceDirtyBits == {"DirtyInstancer", "DirtyInstanceIndex", "DirtyPrimvar"}
\* AddNewInstance that always takes the rebuild branch for an existing master
AddNewInstanceInPlace(d, dag) ==
    LET id == GetPrimPath(dag.node, FALSE)
    IN IF ~HasDagPath(d, dag.node) \/ ~Has(d.shapeAdapters, id) THEN d
       ELSE MarkDirty(RebuildAdapterOnIdle(d, id, {RebuildFlagCallbacks}),
                      d.shapeAdapters[id], InstanceDirtyBits)
AddNewInstance(d, dag) ==
    LET dagsLength == IF HasDagPath(d, dag.node) THEN NumberOfPaths(d, dag.node) ELSE 0
        id == GetPrimPath(dag.node, FALSE)
    IN IF dagsLength = 0 THEN d
       ELSE IF ~Has(d.shapeAdapters, id) THEN d
       ELSE LET u == d.shapeAdapters[id] IN
            IF dagsLength = 1 \/ ~d.adapters[u].instanced
            THEN RecreateAdapterOnIdle(d, id, dag.node)
            ELSE MarkDirty(RebuildAdapterOnIdle(d, id, {RebuildFlagCallbacks}), u,
                           InstanceDirtyBits)

UpdateLightVisibility(d, node, visibilityChanged) ==
    LET id == GetPrimPath(node, TRUE) IN
    IF ~Has(d.lightAdapters, id) THEN d
    ELSE LET u == d.lightAdapters[id] IN
         IF visibilityChanged
         THEN Log(Populate(RemovePrim(d, u), u), "InvalidateTransform", id, {})
         ELSE d

RECURSIVE UpdateShapesBelow(_, _, _)
UpdateShapesBelow(d, shapes, visibilityChanged) ==
    IF shapes = << >> THEN d
    ELSE UpdateShapesBelow(UpdateLightVisibility(d, Head(shapes), visibilityChanged),
                           Tail(shapes), visibilityChanged)

\* _connectionChanged: src is the node of the source plug, the other three say
\* whether the plug is instObjGroups and the destination the set defaultLightSet
connectionChanged(d, src, isInstObjGroups, destIsSet, destIsDefaultLightSet, visibilityChanged) ==
    IF NodeKind(src) # "transform" THEN d
    ELSE IF ~destIsSet THEN d
    ELSE IF ~isInstObjGroups THEN d
    ELSE IF ~destIsDefaultLightSet THEN d
    ELSE IF ~HasDagPath(d, src) THEN d
    ELSE UpdateShapesBelow(d, ShapesDirectlyBelow(src), visibilityChanged)

(* --------------------- render-item delta reconciliation ---------------- *)
GetRenderItem(d, fastId) ==
    IF Has(d.renderItemsAdaptersFast, fastId) THEN d.renderItemsAdaptersFast[fastId] ELSE 0

AddRenderItem(d, u) ==
    [d EXCEPT !.renderItemsAdaptersFast = MapInsert(@, d.adapters[u].fastId, u),
              !.renderItemsAdapters = MapInsert(@, d.adapters[u].id, u)]

RemoveRenderItem(d, u) ==
    LET d1 == Log(d, "RemoveRenderItem", d.adapters[u].id, {})
    IN Release([d1 EXCEPT !.renderItemsAdaptersFast = MapErase(@, d.adapters[u].fastId),
                          !.renderItemsAdapters = MapErase(@, d.adapters[u].id)])

filterMesh(d, ri) ==
    IF d.useMeshAdapter THEN RenderItemName(ri) = "StandardShadedItem" ELSE FALSE

\* _GetRenderItemMaterial that never finds the material in the table
GetRenderItemMaterialUnprobed(d, ri) ==
    IF RenderItemPrimitive(ri) \in {"lines", "lineStrip"}
    THEN [ok |-> TRUE, material |-> FallbackMaterial, engine |-> NullObj]
    ELSE LET engine == ShadingEngineOf(d, ri) IN
         IF engine # NullObj
         THEN [ok |-> FALSE, material |-> GetMaterialPath(engine), engine |-> engine]
         ELSE [ok |-> FALSE, material |-> EmptyPath, engine |-> NullObj]
\* _GetRenderItemMaterial: whether the material is settled, the path, the engine
GetRenderItemMaterial(d, ri) ==
    IF RenderItemPrimitive(ri) \in {"lines", "lineStrip"}
    THEN [ok |-> TRUE, material |-> FallbackMaterial, engine |-> NullObj]
    ELSE LET engine == ShadingEngineOf(d, ri) IN
         IF engine # NullObj
         THEN [ok |-> Has(d.materialAdapters, GetMaterialPath(engine)),
               material |-> GetMaterialPath(engine), engine |-> engine]
         ELSE [ok |-> FALSE, material |-> EmptyPath, engine |-> NullObj]

SetMaterial(d, u, material) ==
    Log([d EXCEPT !.adapters[u].material = material], "SetMaterial", d.adapters[u].id, {})
UpdateFromDelta(d, u) ==
    Log([d EXCEPT !.adapters[u].populated = TRUE], "UpdateFromDelta", d.adapters[u].id, {})
\* the item hands over the flattened matrix of its DAG path; the adapter keeps it
UpdateTransform(d, u) ==
    Log([d EXCEPT !.adapters[u].transform = d.worldMatrix], "UpdateTransform",
        d.adapters[u].id, {})
SetPlaybackChanged(d, u) == Log(d, "SetPlaybackChanged", d.adapters[u].id, {})

RECURSIVE PlaybackLoop(_, _)
PlaybackLoop(d, keys) ==
    IF keys = << >> THEN d
    ELSE PlaybackLoop(SetPlaybackChanged(d, d.renderItemsAdapters[Head(keys)]), Tail(keys))

RECURSIVE RemovalLoop(_, _)
RemovalLoop(d, removals) ==
    IF removals = << >> THEN d
    ELSE LET fastId == Head(removals)
             u == GetRenderItem(d, fastId)
         IN RemovalLoop(
                IF fastId = kInvalidId THEN d
                ELSE IF u # 0 THEN RemoveRenderItem(d, u)
                ELSE Log(d, "AssertFailed", EmptyPath, {"ria != nullptr"}),
                Tail(removals))

\* the second pass for one item without the transform push
UpdateItemUnmoved(d, ri, flags) ==
    IF flags = {} THEN d
    ELSE IF filterMesh(d, ri) THEN d
    ELSE LET fastId == InternalObjectId(ri)
             known == GetRenderItem(d, fastId)
             slowId == GetRenderItemPrimPath(ri)
         IN IF known = 0 /\ slowId = EmptyPath THEN d
            ELSE LET a == [NewAdapter("renderItem", slowId, SourceDagPath(ri), fastId)
                               EXCEPT !.primitive = RenderItemPrimitive(ri)]
                     u == IF known # 0 THEN known ELSE NewUid(d, a)
                     d1 == IF known # 0 THEN d ELSE AddRenderItem(Construct(d, u, a), u)
                     m == GetRenderItemMaterial(d1, ri)
                     d2 == IF ~m.ok /\ m.material # kInvalidMaterial
                           THEN CreateMaterial(d1, m.material, m.engine).d ELSE d1
                     d3 == IF "changedEffect" \in flags THEN SetMaterial(d2, u, m.material) ELSE d2
                     d4 == UpdateFromDelta(d3, u)
                 IN d4
UpdateItem(d, ri, flags) ==
    IF flags = {} THEN d
    ELSE IF filterMesh(d, ri) THEN d
    ELSE LET fastId == InternalObjectId(ri)
             known == GetRenderItem(d, fastId)
             slowId == GetRenderItemPrimPath(ri)
         IN IF known = 0 /\ slowId = EmptyPath THEN d
            ELSE LET a == [NewAdapter("renderItem", slowId, SourceDagPath(ri), fastId)
                               EXCEPT !.primitive = RenderItemPrimitive(ri)]
                     u == IF known # 0 THEN known ELSE NewUid(d, a)
                     d1 == IF known # 0 THEN d ELSE AddRenderItem(Construct(d, u, a), u)
                     m == GetRenderItemMaterial(d1, ri)
                     d2 == IF ~m.ok /\ m.material # kInvalidMaterial
                           THEN CreateMaterial(d1, m.material, m.engine).d ELSE d1
                     d3 == IF "changedEffect" \in flags THEN SetMaterial(d2, u, m.material) ELSE d2
                     d4 == UpdateFromDelta(d3, u)
                 IN IF "changedMatrix" \in flags THEN UpdateTransform(d4, u) ELSE d4

RECURSIVE ItemLoop(_, _)
ItemLoop(d, items) ==
    IF items = << >> THEN d
    ELSE ItemLoop(UpdateItem(d, Head(items)[1], Head(items)[2]), Tail(items))

HandleCompleteViewportScene(d, playbackRunning, removals, items) ==
    LET d1 == IF d.isPlaybackRunning # playbackRunning
              THEN [PlaybackLoop(d, KeysOf(d.renderItemsAdapters))
                        EXCEPT !.isPlaybackRunning = playbackRunning]
              ELSE d
    IN ItemLoop(RemovalLoop(d1, removals), items)

(* --------------------- the per-frame synchronisation ------------------- *)
\* A draw context: [defaultMaterial, xray : BOOLEAN, lights : the light nodes the
\* context enumerates as active, shadow : whether they report shadow projection,
\* tagUpdated : what UpdateMaterialTag answers]
LightOrder == <<"L1", "L2", "U1">>
EarlyReturn(d) == Log([d EXCEPT !.returned = TRUE], "Return", EmptyPath, {})

RECURSIVE MarkShapesDirty(_, _)
MarkShapesDirty(d, keys) ==
    IF keys = << >> THEN d
    ELSE MarkShapesDirty(MarkDirty(d, d.shapeAdapters[Head(keys)], {"DirtyMaterialId"}),
                         Tail(keys))
StepDefaultMaterial(d, ctx) ==
    IF ctx.defaultMaterial = d.useDefaultMaterial THEN d
    ELSE IF d.useMeshAdapter
    THEN MarkShapesDirty([AtStep(d, "defaultMaterial") EXCEPT
                              !.useDefaultMaterial = ctx.defaultMaterial],
                         KeysOf(d.shapeAdapters))
    ELSE [d EXCEPT !.useDefaultMaterial = ctx.defaultMaterial]

RECURSIVE XRayLoop(_, _)
XRayLoop(d, keys) ==
    IF keys = << >> THEN d
    ELSE XRayLoop(EnableXRayShadingMode(d, d.materialAdapters[Head(keys)], d.xRayEnabled),
                  Tail(keys))
\* the x-ray statement that stores the flag and tells no material adapter
StepXRayUnpropagated(d, ctx) ==
    IF ctx.xray # d.xRayEnabled THEN [AtStep(d, "xray") EXCEPT !.xRayEnabled = ctx.xray]
    ELSE d
StepXRay(d, ctx) ==
    IF ctx.xray # d.xRayEnabled
    THEN XRayLoop([AtStep(d, "xray") EXCEPT !.xRayEnabled = ctx.xray],
                  KeysOf(d.materialAdapters))
    ELSE d

RECURSIVE RebuildFirstRprimOf(_, _, _)
\* RebuildRprimsOf leaving the loop at the first rprim of the material
RebuildFirstRprimOf(d, ids, materialId) ==
    IF ids = << >> THEN d
    ELSE IF RprimMaterialId(d, Head(ids)) = materialId
         THEN Log(RebuildAdapterOnIdle(d, Head(ids), {RebuildFlagPrim}),
                  "RebuildAdapterOnIdle", Head(ids), {RebuildFlagPrim})
         ELSE RebuildFirstRprimOf(d, Tail(ids), materialId)
RECURSIVE RebuildRprimsOf(_, _, _)
RebuildRprimsOf(d, ids, materialId) ==
    IF ids = << >> THEN d
    ELSE RebuildRprimsOf(
             IF RprimMaterialId(d, Head(ids)) = materialId
             THEN Log(RebuildAdapterOnIdle(d, Head(ids), {RebuildFlagPrim}),
                      "RebuildAdapterOnIdle", Head(ids), {RebuildFlagPrim})
             ELSE d,
             Tail(ids), materialId)
RECURSIVE MaterialTagLoop(_, _, _)
MaterialTagLoop(d, i, ctx) ==
    IF i > Len(d.materialTagsChanged) THEN d
    ELSE LET id == d.materialTagsChanged[i]
             updated == Has(d.materialAdapters, id) /\ ctx.tagUpdated
             d1 == IF Has(d.materialAdapters, id) THEN Log(d, "UpdateMaterialTag", id, {}) ELSE d
         IN MaterialTagLoop(IF updated THEN RebuildRprimsOf(d1, RprimIds(d1), id) ELSE d1,
                            i + 1, ctx)
StepMaterialTags(d, ctx) ==
    IF d.materialTagsChanged # << >>
    THEN [(IF d.isHdSt THEN MaterialTagLoop(AtStep(d, "materialTags"), 1, ctx) ELSE d)
             EXCEPT !.materialTagsChanged = << >>]
    ELSE d

RECURSIVE LightsToAddLoop(_, _)
LightsToAddLoop(d, i) ==
    IF i > Len(d.lightsToAdd) THEN d
    ELSE IF ~HasDagPath(d, d.lightsToAdd[i]) THEN EarlyReturn(d)
    ELSE LightsToAddLoop(CreateLightAdapter(d, d.lightsToAdd[i]).d, i + 1)
\* a loop that returned from PreFrame leaves its queue as it is
Clear(d, queue) == IF d.returned THEN d ELSE [d EXCEPT ![queue] = << >>]
StepLightsToAdd(d) ==
    IF d.lightsToAdd # << >>
    THEN Clear(LightsToAddLoop(AtStep(d, "lightsToAdd"), 1), "lightsToAdd")
    ELSE d

ChildInstanceNumber(parent, child) == IF parent = "T1" /\ child = "S1" THEN 1 ELSE 0
RECURSIVE ChildLoop(_, _, _)
ChildLoop(d, parent, children) ==
    IF children = << >> THEN d
    ELSE LET dagCopy == DagPath(Head(children), ChildInstanceNumber(parent, Head(children)))
         IN ChildLoop(
                IF NumberOfPaths(d, dagCopy.node) > 1 /\ dagCopy.inst > 0
                THEN AddNewInstance(d, dagCopy) ELSE d,
                parent, Tail(children))
RECURSIVE AddedNodesLoop(_, _)
AddedNodesLoop(d, i) ==
    IF i > Len(d.addedNodes) THEN d
    ELSE LET obj == d.addedNodes[i] IN
         IF obj = NullObj THEN AddedNodesLoop(d, i + 1)
         ELSE IF ~HasDagPath(d, obj) THEN EarlyReturn(d)
         ELSE IF NodeKind(obj) = "transform"
              THEN AddedNodesLoop(ChildLoop(d, obj, Children(obj)), i + 1)
              ELSE AddedNodesLoop(InsertDag(d, DagPath(obj, 0)), i + 1)
StepAddedNodes(d) ==
    IF d.returned THEN d
    ELSE IF d.useMeshAdapter /\ d.addedNodes # << >>
    THEN Clear(AddedNodesLoop(AtStep(d, "addedNodes"), 1), "addedNodes")
    ELSE d

EraseRebuild(d, id) ==
    LET i == IndexOfId(d.adaptersToRebuild, id)
    IN IF i = 0 THEN d
       ELSE Log([d EXCEPT !.adaptersToRebuild =
                     SubSeq(@, 1, i - 1) \o SubSeq(@, i + 1, Len(@))],
                "EraseRebuild", id, d.adaptersToRebuild[i][2])
RECURSIVE RecreateLoop(_, _)
RecreateLoop(d, i) ==
    IF i > Len(d.adaptersToRecreate) THEN d
    ELSE LET it == d.adaptersToRecreate[i]
             d1 == RecreateAdapter(Log(d, "RecreateAdapter", it[1], {it[2]}), it[1], it[2])
         IN RecreateLoop(EraseRebuild(d1, it[1]), i + 1)
StepRecreate(d) ==
    IF d.returned THEN d
    ELSE IF d.adaptersToRecreate # << >>
    THEN [RecreateLoop(AtStep(d, "recreate"), 1) EXCEPT !.adaptersToRecreate = << >>]
    ELSE d

RebuildAdapter(d, id, flags) ==
    LET u == FindUid(d, id, <<"shapeAdapters", "lightAdapters", "materialAdapters">>)
    IN IF u = 0 THEN d
       ELSE LET d0 == Log(d, "Rebuild", id, flags)
                d1 == IF RebuildFlagCallbacks \in flags
                      THEN CreateCallbacks(RemoveCallbacks(d0, u), u) ELSE d0
            IN IF RebuildFlagPrim \in flags THEN Populate(RemovePrim(d1, u), u) ELSE d1
RECURSIVE RebuildLoop(_, _)
RebuildLoop(d, i) ==
    IF i > Len(d.adaptersToRebuild) THEN d
    ELSE RebuildLoop(RebuildAdapter(d, d.adaptersToRebuild[i][1], d.adaptersToRebuild[i][2]),
                     i + 1)
StepRebuild(d) ==
    IF d.returned THEN d
    ELSE IF d.adaptersToRebuild # << >>
    THEN [RebuildLoop(AtStep(d, "rebuild"), 1) EXCEPT !.adaptersToRebuild = << >>]
    ELSE d

\* _GetActiveLightPaths: the DAG path of every light adapter
GetActiveLightPaths(d) == {d.adapters[u].node : u \in Range(d.lightAdapters)}

RECURSIVE ContextLightLoop(_, _, _, _)
\* the loop over the context's lights: [d, active]
ContextLightLoop(d, active, lights, ctx) ==
    IF lights = << >> THEN [d |-> d, active |-> active]
    ELSE LET lightPath == Head(lights) IN
         IF ~HasDagPath(d, lightPath) \/ IsUfeItemFromMayaUsd(lightPath)
         THEN ContextLightLoop(d, active, Tail(lights), ctx)
         ELSE LET id == GetPrimPath(lightPath, TRUE)
                  d1 == IF ctx.shadow /\ Has(d.lightAdapters, id)
                        THEN Log(d, "SetShadowProjectionMatrix", id, {}) ELSE d
              IN ContextLightLoop(d1, active \cup {lightPath}, Tail(lights), ctx)

RECURSIVE LightingLoop(_, _, _)
LightingLoop(d, active, keys) ==
    IF keys = << >> THEN [d |-> d, active |-> active]
    ELSE LET u == d.lightAdapters[Head(keys)]
             node == d.adapters[u].node
         IN IF node \in active
            THEN LightingLoop(SetLightingOn(d, u, TRUE), active \ {node}, Tail(keys))
            ELSE LightingLoop(SetLightingOn(d, u, FALSE), active, Tail(keys))

RECURSIVE CreateLightsLoop(_, _)
CreateLightsLoop(d, lights) ==
    IF lights = << >> THEN d
    ELSE CreateLightsLoop(CreateLightAdapter(d, Head(lights)).d, Tail(lights))

InOrder(nodes) == SelectSeq(LightOrder, LAMBDA n : n \in nodes)
\* the light synchronisation without the creation of the remaining lights
LightSyncNoCreate(d, ctx) ==
    IF Cardinality(ctx.lights) = 0 /\ GetActiveLightPaths(d) = {}
    THEN LightingLoop(d, {}, KeysOf(d.lightAdapters)).d
    ELSE LET c == ContextLightLoop(d, GetActiveLightPaths(d), InOrder(ctx.lights), ctx)
         IN LightingLoop(c.d, c.active, KeysOf(c.d.lightAdapters)).d
LightSync(d, ctx) ==
    IF Cardinality(ctx.lights) = 0 /\ GetActiveLightPaths(d) = {}
    THEN LightingLoop(d, {}, KeysOf(d.lightAdapters)).d
    ELSE LET c == ContextLightLoop(d, GetActiveLightPaths(d), InOrder(ctx.lights), ctx)
             l == LightingLoop(c.d, c.active, KeysOf(c.d.lightAdapters))
         IN CreateLightsLoop(l.d, InOrder(l.active))
\* the light synchronisation on every backend
StepLightSyncAlways(d, ctx) ==
    IF d.returned THEN d ELSE LightSync(AtStep(d, "lightSync"), ctx)
StepLightSync(d, ctx) ==
    IF d.returned \/ ~d.isHdSt THEN d ELSE LightSync(AtStep(d, "lightSync"), ctx)

\* PreFrame: the steps in the order of the code; a step after a return is skipped
PreFrame(d, ctx) ==
    LET d1 == StepMaterialTags(StepXRay(StepDefaultMaterial(d, ctx), ctx), ctx)
        d2 == StepRebuild(StepRecreate(StepAddedNodes(StepLightsToAdd(d1))))
    IN StepLightSync(d2, ctx)

(* ------------------------------ actions -------------------------------- *)
RECURSIVE SeqsUpTo(_, _)
SeqsUpTo(S, n) ==
    IF n = 0 THEN {<< >>}
    ELSE LET shorter == SeqsUpTo(S, n - 1)
         IN shorter \cup {Append(q, x) : q \in shorter, x \in S}

\* the DAG iterator of Populate: depth first, one visit per path
DagOrder == <<"T1", "L1", "S1", "C1", "C2", "L2", "S2", "S3", "S4", "U1">>
DagPaths(d) ==
    LET present == SelectSeq(DagOrder, LAMBDA n : HasDagPath(d, n))
        first == [i \in 1..Len(present) |-> DagPath(present[i], 0)]
    IN IF HasDagPath(d, "S1") /\ NumberOfPaths(d, "S1") > 1
       THEN Append(first, DagPath("S1", 1)) ELSE first
RECURSIVE PopulateLoopDeferred(_, _)
\* the traversal of Populate that announces every node and inserts none
PopulateLoopDeferred(d, paths) ==
    IF paths = << >> THEN d
    ELSE PopulateLoopDeferred(OnDagNodeAdded(d, Head(paths).node), Tail(paths))
RECURSIVE PopulateLoop(_, _)
PopulateLoop(d, paths) ==
    IF paths = << >> THEN d
    ELSE PopulateLoop(IF d.useMeshAdapter THEN InsertDag(d, Head(paths))
                      ELSE OnDagNodeAdded(d, Head(paths).node),
                      Tail(paths))
\* the ids of the three host callbacks Populate registers
HostCallbacks == <<"nodeAdded", "nodeRemoved", "connection">>
DelegatePopulate(d) ==
    [PopulateLoop(d, DagPaths(d)) EXCEPT !.callbacks = @ \o HostCallbacks]

\* the destructor: the host callbacks go first, then RemoveCallbacks on the
\* adapters of the four tables it names
Destructor(d) ==
    LET RECURSIVE removeCallback(_, _)
        removeCallback(e, ids) ==
            IF ids = << >> THEN e
            ELSE removeCallback(Log(e, "removeCallback", <<"callback", Head(ids)>>, {}),
                                Tail(ids))
        RECURSIVE MapAdapter(_, _)
        MapAdapter(e, uids) ==
            IF uids = << >> THEN e
            ELSE MapAdapter(RemoveCallbacks(e, Head(uids)), Tail(uids))
        UidsOf(m) == [i \in 1..Len(KeysOf(m)) |-> m[KeysOf(m)[i]]]
    IN MapAdapter(removeCallback(d, d.callbacks),
                  UidsOf(d.renderItemsAdapters) \o UidsOf(d.shapeAdapters)
                  \o UidsOf(d.lightAdapters) \o UidsOf(d.materialAdapters))

\* the identities of the scene's adapters and one no table ever holds
PathInputs ==
    {GetPrimPath("S1", FALSE), GetPrimPath("L1", TRUE), GetPrimPath("C1", TRUE),
     GetMaterialPath("M1"), <<"rprim", "none">>}
RecreateInputs ==
    {<<GetPrimPath("S1", FALSE), "S1">>, <<GetPrimPath("L1", TRUE), "L1">>,
     <<GetMaterialPath("M1"), "M1">>}
RebuildInputs ==
    {GetPrimPath("S1", FALSE), GetPrimPath("L1", TRUE)}
    \X {{RebuildFlagPrim}, {RebuildFlagCallbacks}}
\* a connection: the source node and what holds of its plugs, out of
\* instObjGroups (the source plug), destIsSet, defaultLightSet (the destination)
\* and visibilityChanged (what the light's UpdateVisibility answers)
ConnectionInputs ==
    {<<"T1", {"instObjGroups", "destIsSet", "defaultLightSet", "visibilityChanged"}>>,
     <<"T1", {"instObjGroups", "destIsSet", "defaultLightSet"}>>,
     <<"T1", {"instObjGroups", "destIsSet", "visibilityChanged"}>>,
     <<"T1", {"destIsSet", "defaultLightSet", "visibilityChanged"}>>,
     <<"T1", {"instObjGroups", "visibilityChanged"}>>,
     <<"L1", {"instObjGroups", "destIsSet", "defaultLightSet", "visibilityChanged"}>>}
Context(dm, xr, ls, sh, tu) ==
    [defaultMaterial |-> dm, xray |-> xr, lights |-> ls, shadow |-> sh, tagUpdated |-> tu]
\* draw contexts that differ in the active lights only
LightContexts == {Context(FALSE, FALSE, ls, FALSE, FALSE) : ls \in SUBSET LightNodes}
\* draw contexts with no active light, of either material tag outcome
IdleContexts == {Context(FALSE, FALSE, {}, FALSE, tu) : tu \in BOOLEAN}

\* the host enqueues no more while MaxQueue entries are pending
QueuesWithin(d) ==
    Len(d.lightsToAdd) + Len(d.addedNodes) + Len(d.adaptersToRecreate)
    + Len(d.adaptersToRebuild) + Len(d.materialTagsChanged) <= MaxQueue

\* the last operation and its arguments (the fields an operation does not take
\* keep the values below)
NoArgs ==
    [id |-> EmptyPath, node |-> NullObj, flags |-> {}, ctx |-> Context(FALSE, FALSE, {}, FALSE, FALSE),
     removals |-> << >>, items |-> << >>]
\* frame is where a PreFrame that runs statement by statement stands, and the
\* queue its last loop went through; an operation that runs whole leaves it alone
Did(op, arg) == last' = [op |-> op, arg |-> arg] /\ UNCHANGED frame

Init ==
    /\ shapeAdapters = EmptyMap /\ lightAdapters = EmptyMap /\ cameraAdapters = EmptyMap
    /\ materialAdapters = EmptyMap /\ renderItemsAdapters = EmptyMap
    /\ renderItemsAdaptersFast = EmptyMap /\ adapters = EmptyMap
    /\ lightsToAdd = << >> /\ addedNodes = << >> /\ adaptersToRecreate = << >>
    /\ adaptersToRebuild = << >> /\ materialTagsChanged = << >>
    /\ useDefaultMaterial = FALSE /\ xRayEnabled = FALSE /\ isPlaybackRunning = FALSE
    /\ callbacks = << >>
    /\ useMeshAdapter \in BOOLEAN /\ isHdSt \in BOOLEAN /\ lightsEnabled = TRUE
    /\ nodeStatus = [n \in Objects |-> IF n \in {"T1", "S3"} THEN "detached" ELSE "dag"]
    /\ playing = FALSE
    /\ worldMatrix = 0
    /\ frame = [pc |-> "idle", seen |-> << >>]
    /\ reported = [ri \in MovingItems |-> -1]
    /\ calls = << >>
    /\ last = [op |-> "Init", arg |-> NoArgs]

\* the owner populates the delegate right after constructing it, before the
\* first frame; Populate also registers the host callbacks
Populated == last.op \notin {"Init", "Destroy"}
DoPopulate ==
    /\ last.op = "Init"
    /\ Commit(DelegatePopulate(Self))
    /\ Did("Populate", NoArgs)
    /\ UNCHANGED hostVars

\* the host adds a node to the DAG (or announces it again) and runs the
\* node-added callback
NodeAdded(obj) ==
        /\ Populated
        /\ obj # NullObj => nodeStatus[obj] # "invalid"
        /\ nodeStatus' = IF obj = NullObj THEN nodeStatus ELSE [nodeStatus EXCEPT ![obj] = "dag"]
        /\ LET d == OnDagNodeAdded(Self, obj)
           IN QueuesWithin(d) /\ Commit(d)
        /\ Did("OnDagNodeAdded", [NoArgs EXCEPT !.node = obj])
        /\ UNCHANGED <<playing, worldMatrix, reported>>

\* the host takes a node out of the DAG (it stays valid for undo, or is deleted
\* for good) and runs the node-removed callback
NodeRemoved(obj, st) ==
        /\ Populated
        /\ nodeStatus[obj] = "dag"
        /\ nodeStatus' = [nodeStatus EXCEPT ![obj] = st]
        /\ Commit(OnDagNodeRemoved(Self, obj))
        /\ Did("OnDagNodeRemoved", [NoArgs EXCEPT !.node = obj])
        /\ UNCHANGED <<playing, worldMatrix, reported>>

ConnectionChanged ==
    \E c \in ConnectionInputs :
        /\ Populated
        /\ Commit(connectionChanged(Self, c[1], "instObjGroups" \in c[2], "destIsSet" \in c[2],
                                    "defaultLightSet" \in c[2], "visibilityChanged" \in c[2]))
        /\ Did("connectionChanged", [NoArgs EXCEPT !.node = c[1], !.flags = c[2]])
        /\ UNCHANGED hostVars

DoRemoveAdapter ==
    \E id \in PathInputs :
        /\ Populated
        /\ Commit(RemoveAdapter(Self, id))
        /\ Did("RemoveAdapter", [NoArgs EXCEPT !.id = id])
        /\ UNCHANGED hostVars

DoRecreateAdapterOnIdle ==
    \E p \in RecreateInputs :
        /\ Populated
        /\ LET d == RecreateAdapterOnIdle(Self, p[1], p[2])
           IN QueuesWithin(d) /\ Commit(d)
        /\ Did("RecreateAdapterOnIdle", [NoArgs EXCEPT !.id = p[1], !.node = p[2]])
        /\ UNCHANGED hostVars

DoRebuildAdapterOnIdle ==
    \E p \in RebuildInputs :
        /\ Populated
        /\ LET d == RebuildAdapterOnIdle(Self, p[1], p[2])
           IN QueuesWithin(d) /\ Commit(d)
        /\ Did("RebuildAdapterOnIdle", [NoArgs EXCEPT !.id = p[1], !.flags = p[2]])
        /\ UNCHANGED hostVars

DoMaterialTagChanged ==
    \E id \in {GetMaterialPath("M1")} :
        /\ Populated
        /\ LET d == MaterialTagChanged(Self, id)
           IN QueuesWithin(d) /\ Commit(d)
        /\ Did("MaterialTagChanged", [NoArgs EXCEPT !.id = id])
        /\ UNCHANGED hostVars

DoPreFrame(ctx) ==
        /\ Populated
        /\ ctx.lights = {} => ~ctx.shadow
        /\ materialTagsChanged = << >> => ~ctx.tagUpdated
        /\ Commit(PreFrame(Self, ctx))
        /\ Did("PreFrame", [NoArgs EXCEPT !.ctx = ctx])
        /\ UNCHANGED hostVars

\* the host moves S1 (or a parent of it): the flattened matrix of its DAG path,
\* 0 for the identity, changes; the delegate hears of it in a later batch
MoveShape ==
    /\ Populated
    /\ worldMatrix' = 1 - worldMatrix
    /\ Did("MoveShape", [NoArgs EXCEPT !.node = "S1"])
    /\ calls' = << >>
    /\ UNCHANGED <<delegateVars, configVars, nodeStatus, playing, reported>>

\* a delta batch of a host that keeps its word on matrices: it removes only
\* items it handed over, and an item it reports whose matrix the delegate has
\* not been given yet carries the changed-matrix flag. reported is the host's
\* record of the matrix it last handed over for each item (-1: none)
HostBatch(removals, items) ==
    LET removed == {ri \in MovingItems : \E i \in 1..Len(removals) :
                        removals[i] = InternalObjectId(ri)}
        moved == {ri \in MovingItems : \E i \in 1..Len(items) :
                        items[i][1] = ri /\ "changedMatrix" \in items[i][2]}
    IN /\ Populated
       /\ \A ri \in removed : reported[ri] # -1
       /\ \A i \in 1..Len(items) :
              /\ items[i][2] # {}
              /\ (items[i][1] \in removed \/ reported[items[i][1]] # worldMatrix)
                     => "changedMatrix" \in items[i][2]
       /\ Commit(HandleCompleteViewportScene(Self, playing, removals, items))
       /\ Did("HandleCompleteViewportScene",
              [NoArgs EXCEPT !.removals = removals, !.items = items])
       /\ reported' = [ri \in MovingItems |->
                          IF ri \in moved THEN worldMatrix
                          ELSE IF ri \in removed THEN -1 ELSE reported[ri]]
       /\ UNCHANGED <<nodeStatus, playing, worldMatrix>>

\* PreFrame statement by statement, so that host callbacks can run in between:
\* the steps before the queues, each queue's loop, each queue's clear(), the rest
FrameStep(ctx) ==
    /\ Populated
    /\ last' = [op |-> "PreFrame", arg |-> [NoArgs EXCEPT !.ctx = ctx]]
    /\ UNCHANGED hostVars
    /\ \/ /\ frame.pc = "idle"
          /\ Commit(StepMaterialTags(StepXRay(StepDefaultMaterial(Self, ctx), ctx), ctx))
          /\ frame' = [pc |-> "lightsToAdd", seen |-> << >>]
       \/ /\ frame.pc = "lightsToAdd"
          /\ LET d == IF lightsToAdd # << >>
                      THEN LightsToAddLoop(AtStep(Self, "lightsToAdd"), 1) ELSE Self
             IN /\ Commit(d)
                /\ frame' = IF d.returned THEN [pc |-> "idle", seen |-> << >>]
                             ELSE IF lightsToAdd # << >>
                             THEN [pc |-> "clearLights", seen |-> lightsToAdd]
                             ELSE [pc |-> "addedNodes", seen |-> << >>]
       \/ /\ frame.pc = "clearLights"
          /\ Commit([Self EXCEPT !.lightsToAdd = << >>])
          /\ frame' = [pc |-> "addedNodes", seen |-> << >>]
       \/ /\ frame.pc = "addedNodes"
          /\ LET loops == useMeshAdapter /\ addedNodes # << >>
                 d == IF loops THEN AddedNodesLoop(AtStep(Self, "addedNodes"), 1) ELSE Self
             IN /\ QueuesWithin(d)
                /\ Commit(d)
                /\ frame' = IF d.returned THEN [pc |-> "idle", seen |-> << >>]
                             ELSE IF loops THEN [pc |-> "clearNodes", seen |-> addedNodes]
                             ELSE [pc |-> "rest", seen |-> << >>]
       \/ /\ frame.pc = "clearNodes"
          /\ Commit([Self EXCEPT !.addedNodes = << >>])
          /\ frame' = [pc |-> "rest", seen |-> << >>]
       \/ /\ frame.pc = "rest"
          /\ Commit(StepLightSync(StepRebuild(StepRecreate(Self)), ctx))
          /\ frame' = [pc |-> "idle", seen |-> << >>]

\* the backend is deactivated: the delegate is destroyed and takes no more calls
Destroy ==
    /\ Populated
    /\ Commit(Destructor(Self))
    /\ Did("Destroy", NoArgs)
    /\ UNCHANGED hostVars

TogglePlayback ==
    /\ Populated
    /\ playing' = ~playing
    /\ Did("TogglePlayback", NoArgs)
    /\ calls' = << >>
    /\ UNCHANGED <<delegateVars, configVars, nodeStatus, worldMatrix, reported>>

\* the host hands over one render-item delta batch
HandleScene(removals, items) ==
        /\ Populated
        /\ Commit(HandleCompleteViewportScene(Self, playing, removals, items))
        /\ Did("HandleCompleteViewportScene",
               [NoArgs EXCEPT !.removals = removals, !.items = items])
        /\ UNCHANGED hostVars
DoHandleCompleteViewportScene ==
    \E removals \in SeqsUpTo(FastIds, MaxRemovals),
       items \in SeqsUpTo(RenderItems \X ItemFlags, MaxItems) :
        HandleScene(removals, items)

\* the renderer asks for the material id of one identity
GetMaterialIdOf(id) ==
        /\ Populated
        /\ Commit(GetMaterialId(Self, id).d)
        /\ Did("GetMaterialId", [NoArgs EXCEPT !.id = id])
        /\ UNCHANGED hostVars
DoGetMaterialId == \E id \in PathInputs : GetMaterialIdOf(id)

\* the renderer pulls the values of one identity path; the queries are const
\* member functions, their answers are the query operators applied to the state
QueryIds ==
    PathInputs \cup {GetPrimPath("S1", FALSE) \o <<PropToken>>, MayaDefaultMaterialPath,
                     FallbackMaterial}
DoQuery ==
    \E id \in QueryIds :
        /\ Populated
        /\ Did("Query", [NoArgs EXCEPT !.id = id])
        /\ calls' = << >>
        /\ UNCHANGED <<delegateVars, configVars, hostVars>>

\* a shape gains an instance: the argument is a DAG path that exists
DoAddNewInstance ==
    \E dag \in {DagPath("S1", 1), DagPath("S2", 0), DagPath("S3", 0)} :
        /\ Populated
        /\ HasDagPath(Self, dag.node)
        /\ LET d == AddNewInstance(Self, dag)
           IN QueuesWithin(d) /\ Commit(d)
        /\ Did("AddNewInstance", [NoArgs EXCEPT !.node = dag.node])
        /\ UNCHANGED hostVars

\* the host deletes the shading engine M1 for good: no DAG callback runs
ShadingEngineDeleted ==
    /\ Populated
    /\ nodeStatus["M1"] = "dag"
    /\ nodeStatus' = [nodeStatus EXCEPT !["M1"] = "invalid"]
    /\ Did("ShadingEngineDeleted", [NoArgs EXCEPT !.node = "M1"])
    /\ calls' = << >>
    /\ UNCHANGED <<delegateVars, configVars, playing, worldMatrix, reported>>

\* the lights: their nodes come and go, their visibility changes, frames are drawn
NextLights ==
    \/ DoPopulate
    \/ \E obj \in {"L1", "T1"} : NodeAdded(obj)
    \/ NodeRemoved("L1", "detached")
    \/ ConnectionChanged
    \/ \E ctx \in LightContexts : DoPreFrame(ctx)
SpecLights == Init /\ [][NextLights]_vars

\* the idle queues and the frames that drain them
NextIdle ==
    \/ DoPopulate
    \/ \E obj \in {"L1", "S1", NullObj} : NodeAdded(obj)
    \/ \E obj \in {"L1", "S1"} : NodeRemoved(obj, "detached")
    \/ DoRecreateAdapterOnIdle
    \/ DoRebuildAdapterOnIdle
    \/ DoMaterialTagChanged
    \/ \E ctx \in IdleContexts : DoPreFrame(ctx)
SpecIdle == Init /\ [][NextIdle]_vars

\* the render-item pipeline, the removal of adapters and the material query
NextScene ==
    \/ DoPopulate
    \/ DoHandleCompleteViewportScene
    \/ DoRemoveAdapter
    \/ DoGetMaterialId
    \/ TogglePlayback
SpecScene == Init /\ [][NextScene]_vars

\* the pull queries, over tables filled by Populate and the render-item batches
\* and emptied by RemoveAdapter
NextQueries ==
    \/ DoPopulate
    \/ \E items \in SeqsUpTo({"ri1", "ri2"} \X {{"changedEffect"}}, MaxItems) :
           HandleScene(<< >>, items)
    \/ DoRemoveAdapter
    \/ DoGetMaterialId
    \/ DoQuery
SpecQueries == Init /\ [][NextQueries]_vars

\* materials: the unbound mesh S3 is added, frames toggle the default-material
\* override, render items bring their materials, adapters are removed
MaterialContexts == {Context(dm, FALSE, {}, FALSE, FALSE) : dm \in BOOLEAN}
NextMaterials ==
    \/ DoPopulate
    \/ NodeAdded("S3")
    \/ \E ctx \in MaterialContexts : DoPreFrame(ctx)
    \/ \E items \in SeqsUpTo({"ri1", "ri2"} \X {{"changedEffect"}, {"geom"}}, MaxItems) :
           HandleScene(<< >>, items)
    \/ DoRemoveAdapter
    \/ \E id \in {GetPrimPath("S1", FALSE), GetPrimPath("S3", FALSE),
                   GetPrimPath("S4", FALSE), GetMaterialPath("M1")} : GetMaterialIdOf(id)
SpecMaterials == Init /\ [][NextMaterials]_vars

\* creation: the host announces nodes that have an adapter already, nodes that
\* have none and nodes whose adapter is unsupported; frames create the adapters
NextCreation ==
    \/ DoPopulate
    \/ \E obj \in {"L1", "S1", "C1", "C2", "S3", "S4"} : NodeAdded(obj)
    \/ \E ctx \in {NoArgs.ctx, Context(FALSE, FALSE, {"L1"}, FALSE, FALSE)} : DoPreFrame(ctx)
    \/ DoRemoveAdapter
    \/ GetMaterialIdOf(GetPrimPath("S4", FALSE))
SpecCreation == Init /\ [][NextCreation]_vars

\* the delegate's life: populated, fed nodes, items and frames, then destroyed
NextLifecycle ==
    \/ DoPopulate
    \/ \E obj \in {"L1", "S1", "C1"} : NodeAdded(obj)
    \/ DoPreFrame(NoArgs.ctx)
    \/ \E items \in SeqsUpTo({"ri1", "ri2"} \X {{"geom"}}, MaxItems) : HandleScene(<< >>, items)
    \/ DoRemoveAdapter
    \/ Destroy
SpecLifecycle == Init /\ [][NextLifecycle]_vars

\* the host moves a shape and reports its render items batch by batch
NextTransforms ==
    \/ DoPopulate
    \/ MoveShape
    \/ \E removals \in SeqsUpTo({InternalObjectId(ri) : ri \in MovingItems}, MaxRemovals),
          items \in SeqsUpTo(MovingItems \X {{"geom"}, {"changedMatrix"},
                                              {"geom", "changedMatrix"}}, MaxItems) :
          HostBatch(removals, items)
    \/ DoRemoveAdapter
    \/ DoPreFrame(NoArgs.ctx)
SpecTransforms == Init /\ [][NextTransforms]_vars

\* every route to a material adapter: insertion, a render item, a query, a recreate
NextMaterialCreation ==
    \/ DoPopulate
    \/ DoPreFrame(NoArgs.ctx)
    \/ HandleScene(<< >>, <<<<"ri1", {"changedEffect"}>>>>)
    \/ DoRemoveAdapter
    \/ DoRecreateAdapterOnIdle
    \/ GetMaterialIdOf(GetPrimPath("S1", FALSE))
SpecMaterialCreation == Init /\ [][NextMaterialCreation]_vars

\* the host's node callbacks fire between the statements of a running PreFrame
NextInterleaved ==
    \/ DoPopulate
    \/ \E obj \in {"L1", "L2", "S1", "S3"} : NodeAdded(obj)
    \/ \E obj \in {"L1", "S1"} : NodeRemoved(obj, "detached")
    \/ FrameStep(NoArgs.ctx)
SpecInterleaved == Init /\ [][NextInterleaved]_vars

\* work is queued between frames
NextDrain ==
    \/ DoPopulate
    \/ NodeRemoved("L1", "detached")
    \/ DoRecreateAdapterOnIdle
    \/ DoRebuildAdapterOnIdle
    \/ DoMaterialTagChanged
    \/ DoPreFrame(NoArgs.ctx)
SpecDrain == Init /\ [][NextDrain]_vars

\* stale handles: nodes are detached or deleted while a recreate is queued
NextStale ==
    \/ DoPopulate
    \/ \E obj \in {"L1", "S1"}, st \in {"detached", "invalid"} : NodeRemoved(obj, st)
    \/ ShadingEngineDeleted
    \/ \E obj \in {"L1", "S1"} : NodeAdded(obj)
    \/ DoRecreateAdapterOnIdle
    \/ DoPreFrame(NoArgs.ctx)
SpecStale == Init /\ [][NextStale]_vars

\* instancing: transform T1 above S1 comes and goes, shapes gain instances
NextInstances ==
    \/ DoPopulate
    \/ \E obj \in {"T1", "S3"} : NodeAdded(obj)
    \/ NodeRemoved("T1", "detached")
    \/ DoAddNewInstance
    \/ DoRebuildAdapterOnIdle
    \/ DoPreFrame(NoArgs.ctx)
SpecInstances == Init /\ [][NextInstances]_vars

(* ------------------------------ the claims ----------------------------- *)
Events(log, ev, id) == {i \in 1..Len(log) : log[i].ev = ev /\ log[i].id = id}
QueuedIds(q) == {q[i][1] : i \in 1..Len(q)}
FlagsOf(q, id) == q[IndexOfId(q, id)][2]
OthersOf(q, id) == SelectSeq(q, LAMBDA e : e[1] # id)
PathTables ==
    <<shapeAdapters, renderItemsAdapters, cameraAdapters, lightAdapters, materialAdapters>>
InTables(tabs, id) == \E i \in 1..Len(tabs) : Has(tabs[i], id)
InSomeTable(id) == InTables(PathTables, id)
Returned(log) == Events(log, "Return", EmptyPath) # {}

\* C1: in every reachable state the fast-id table and the path table of the
\* render items hold exactly the same adapters.
C1_RenderItemTablesAgree == Range(renderItemsAdaptersFast) = Range(renderItemsAdapters)

\* C2: a light adapter that exists when a frame starts and whose node the draw
\* context does not enumerate as active has its lighting switched off by a
\* PreFrame that ran its light synchronisation (HdSt, no early return).
C2_InactiveLightsAreOff ==
    [][(last'.op = "PreFrame" /\ isHdSt /\ ~Returned(calls')) =>
          \A id \in DOMAIN lightAdapters \cap DOMAIN lightAdapters' :
              adapters'[lightAdapters'[id]].node \notin last'.arg.ctx.lights
                  => adapters'[lightAdapters'[id]].lighting = "off"]_vars

\* C3: the handlers of the three host callbacks leave every adapter table as it
\* is and perform no render-index operation (the log of the call is empty).
HostHandlers == {"OnDagNodeAdded", "OnDagNodeRemoved", "connectionChanged"}
C3_HandlersOnlyEnqueue ==
    [][last'.op \in HostHandlers => (UNCHANGED tableVars /\ calls' = << >>)]_vars

\* C4: when PreFrame returns every pending-work queue is empty (the added-nodes
\* queue in mesh-adapter mode).
C4_QueuesEmptyAfterPreFrame ==
    last.op = "PreFrame" =>
        /\ materialTagsChanged = << >>
        /\ lightsToAdd = << >>
        /\ useMeshAdapter => addedNodes = << >>
        /\ adaptersToRecreate = << >>
        /\ adaptersToRebuild = << >>

\* C5: an identity with both a queued recreate and a queued rebuild when PreFrame
\* runs has the recreate applied in that pass, its rebuild entry removed and no
\* partial rebuild run for it.
C5_RecreateSupersedesRebuild ==
    [][last'.op = "PreFrame" =>
          \A X \in QueuedIds(adaptersToRecreate) \cap QueuedIds(adaptersToRebuild) :
              /\ X \notin QueuedIds(adaptersToRebuild')
              /\ Events(calls', "RecreateAdapter", X) # {}
              /\ Events(calls', "Rebuild", X) = {}]_vars
\* what holds of C5 in the code: the same, for the frames that do not return early
RecreateSupersedesRebuildUnlessReturned ==
    [][(last'.op = "PreFrame" /\ ~Returned(calls')) =>
          \A X \in QueuedIds(adaptersToRecreate) \cap QueuedIds(adaptersToRebuild) :
              /\ X \notin QueuedIds(adaptersToRebuild')
              /\ Events(calls', "RecreateAdapter", X) # {}
              /\ Events(calls', "Rebuild", X) = {}]_vars

\* the rebuild a frame owes identity X: X has a rebuild entry and an adapter the
\* rebuild step can find, no recreate supersedes it and no material tag change
\* is about to add flags
RebuildDue(X) ==
    /\ X \in QueuedIds(adaptersToRebuild)
    /\ X \notin QueuedIds(adaptersToRecreate)
    /\ materialTagsChanged = << >>
    /\ FindUid(Self, X, <<"shapeAdapters", "lightAdapters", "materialAdapters">>) # 0
EntriesOf(q, id) == {i \in 1..Len(q) : q[i][1] = id}
MergedOnEnqueue ==
    last'.op = "RebuildAdapterOnIdle" =>
        LET X == last'.arg.id
            before == IF X \in QueuedIds(adaptersToRebuild)
                      THEN FlagsOf(adaptersToRebuild, X) ELSE {}
        IN /\ Cardinality(EntriesOf(adaptersToRebuild', X)) = 1
           /\ FlagsOf(adaptersToRebuild', X) = before \cup last'.arg.flags
           /\ OthersOf(adaptersToRebuild', X) = OthersOf(adaptersToRebuild, X)
RebuiltOnce(X) ==
    /\ Cardinality(Events(calls', "Rebuild", X)) = 1
    /\ \A i \in Events(calls', "Rebuild", X) : calls'[i].arg = FlagsOf(adaptersToRebuild, X)
\* C6: enqueuing a rebuild of X again leaves one entry for X with the flags
\* OR-ed and the other entries as they were, and the next PreFrame performs one
\* rebuild of X with the combined flags.
C6_RebuildsMergeAndRunOnce ==
    [][/\ MergedOnEnqueue
       /\ last'.op = "PreFrame" =>
              \A X \in QueuedIds(adaptersToRebuild) : RebuildDue(X) => RebuiltOnce(X)]_vars
\* what holds of C6 in the code: the same, for the frames that do not return early
RebuildsMergeAndRunOnceUnlessReturned ==
    [][/\ MergedOnEnqueue
       /\ (last'.op = "PreFrame" /\ ~Returned(calls')) =>
              \A X \in QueuedIds(adaptersToRebuild) : RebuildDue(X) => RebuiltOnce(X)]_vars

\* the adapters of identity id that the render-item fast table fast refers to
FastHolders(fast, ads, id) == {u \in Range(fast) : ads[u].id = id}
\* C7: removing identity X with RemoveAdapter right after the operation that
\* inserted its adapter leaves X in no adapter table, the fast-id table
\* included, and the adapter has had one CreateCallbacks and one RemoveCallbacks.
C7_InsertThenRemoveLeavesNothing ==
    [][(/\ last'.op = "RemoveAdapter"
        /\ Events(calls, "New", last'.arg.id) # {}
        /\ InSomeTable(last'.arg.id)) =>
           /\ ~InTables(PathTables', last'.arg.id)
           /\ FastHolders(renderItemsAdaptersFast', adapters', last'.arg.id) = {}
           /\ Cardinality(Events(calls, "CreateCallbacks", last'.arg.id)) = 1
           /\ Cardinality(Events(calls', "RemoveCallbacks", last'.arg.id)) = 1]_vars

\* a batch that removes fast id i and reports a changed, unfiltered item ri of
\* another fast id that derives the path of i's adapter
RemovedAndReadded(i, item) ==
    /\ i # kInvalidId
    /\ Has(renderItemsAdaptersFast, i)
    /\ InternalObjectId(item[1]) # i
    /\ item[2] # {}
    /\ ~filterMesh(Self, item[1])
    /\ GetRenderItemPrimPath(item[1]) # EmptyPath
    /\ GetRenderItemPrimPath(item[1]) = adapters[renderItemsAdaptersFast[i]].id
OnlyTheNewAdapter(p, j) ==
    /\ Has(renderItemsAdapters', p)
    /\ Has(renderItemsAdaptersFast', j)
    /\ renderItemsAdapters'[p] = renderItemsAdaptersFast'[j]
    /\ adapters'[renderItemsAdapters'[p]].fastId = j
    /\ Events(calls', "New", p) # {}
    /\ Cardinality({u \in Range(renderItemsAdaptersFast') \cup Range(renderItemsAdapters') :
                        adapters'[u].id = p}) = 1
RemovalThenAdd ==
    last'.op = "HandleCompleteViewportScene" =>
        \A r \in 1..Len(last'.arg.removals), k \in 1..Len(last'.arg.items) :
            RemovedAndReadded(last'.arg.removals[r], last'.arg.items[k]) =>
                OnlyTheNewAdapter(GetRenderItemPrimPath(last'.arg.items[k][1]),
                                  InternalObjectId(last'.arg.items[k][1]))
\* C8: a batch that removes fast id i and changes an item of another fast id j
\* deriving the same path p leaves one adapter for p in both render-item tables,
\* the newly created one with fast id j.
C8_RemovalThenAddSamePath == [][RemovalThenAdd]_vars
\* what holds of C8 in the code: the same, from the states in which the two
\* render-item tables agree
RemovalThenAddWhenTablesAgree ==
    [][Range(renderItemsAdaptersFast) = Range(renderItemsAdapters) => RemovalThenAdd]_vars

\* the answers of the queries that go through _GetValue, with their result types
ValueQueries(d, id) ==
    << <<GetMeshTopology(d, id), "HdMeshTopology">>,
       <<GetBasisCurvesTopology(d, id), "HdBasisCurvesTopology">>,
       <<GetSubdivTags(d, id), "PxOsdSubdivTags">>,
       <<GetExtent(d, id), "GfRange3d">>,
       <<GetTransform(d, id), "GfMatrix4d">>,
       <<SampleTransform(d, id), "size_t">>,
       <<Get(d, id), "VtValue">>,
       <<GetRenderTag(d, id), "TfToken">>,
       <<GetPrimvarDescriptors(d, id), "HdPrimvarDescriptorVector">>,
       <<GetLightParamValue(d, id), "VtValue">>,
       <<GetCameraParamValue(d, id), "VtValue">>,
       <<GetInstanceIndices(d, id), "VtIntArray">>,
       <<GetInstancerId(d, id), "SdfPath">>,
       <<GetVisible(d, id), "bool">>,
       <<GetDoubleSided(d, id), "bool">>,
       <<GetCullStyle(d, id), "HdCullStyle">>,
       <<GetDisplayStyle(d, id), "HdDisplayStyle">> >>
AllDefault(answers) ==
    \A i \in 1..Len(answers) : answers[i][1] = GetDefaultValue(answers[i][2])
\* C9 as the spec words it: every query about an identity that is in no adapter
\* table returns the default (empty) value of its result type,
\* GetMaterialResource included.
C9_EveryQueryReturnsEmptyDefault ==
    (last.op = "Query" /\ ~InSomeTable(last.arg.id)) =>
        /\ AllDefault(ValueQueries(Self, last.arg.id))
        /\ GetMaterialResource(Self, last.arg.id) = GetDefaultValue("VtValue")
\* C9: every query about an identity whose prim path is in no adapter table
\* returns the default value of its result type, except GetMaterialResource, which
\* returns the preview material resource (the Maya default material for the
\* default material path) and never an empty value.
C9_AbsentIdsGetDefaults ==
    (last.op = "Query" /\ ~InSomeTable(PrimPathOf(last.arg.id))) =>
        /\ AllDefault(ValueQueries(Self, last.arg.id))
        /\ GetMaterialResource(Self, last.arg.id) =
               IF last.arg.id = MayaDefaultMaterialPath THEN <<"mayaDefaultMaterial">>
               ELSE GetPreviewMaterialResource(last.arg.id)
\* the shape S1 was populated and removed again, and is then queried
C9_QueriedAfterRemoval ==
    /\ last.op = "Query"
    /\ last.arg.id = GetPrimPath("S1", FALSE)
    /\ ~InSomeTable(last.arg.id)
    /\ Has(lightAdapters, GetPrimPath("L1", TRUE))
    /\ Has(materialAdapters, GetMaterialPath("M1"))
    /\ GetVisible(Self, last.arg.id) = GetDefaultValue("bool")

\* the answer of the adapter the first of the tables tbls, in the documented
\* order, holds for id
FirstOf(id, method, type, tbls) ==
    GetValue(Self, id, method, type, SelectSeq(TableNames, LAMBDA t : t \in tbls))
ShapeMaterialId(id) ==
    IF ShapeMaterial(Self, adapters[shapeAdapters[id]].node) = NullObj THEN FallbackMaterial
    ELSE GetMaterialPath(ShapeMaterial(Self, adapters[shapeAdapters[id]].node))
\* C10: every query probes the tables in the order shape, render item, camera,
\* light, material and the first table holding the identity answers; an identity
\* in both the shape table and the render-item table is answered from the shape
\* adapter, by Get, GetTransform, GetVisible and GetMaterialId alike.
C10_ShapeTableAnswersFirst ==
    last.op = "Query" =>
        /\ Get(Self, PrimPathOf(last.arg.id))
               = FirstOf(PrimPathOf(last.arg.id), "Get", "VtValue",
                         {"shapeAdapters", "renderItemsAdapters", "cameraAdapters",
                          "lightAdapters", "materialAdapters"})
        /\ GetTransform(Self, last.arg.id)
               = FirstOf(last.arg.id, "GetTransform", "GfMatrix4d",
                         {"shapeAdapters", "renderItemsAdapters", "cameraAdapters",
                          "lightAdapters"})
        /\ GetVisible(Self, last.arg.id)
               = FirstOf(last.arg.id, "GetVisible", "bool",
                         {"shapeAdapters", "renderItemsAdapters", "lightAdapters"})
        /\ (Has(shapeAdapters, last.arg.id) /\ Has(renderItemsAdapters, last.arg.id)) =>
               /\ Get(Self, last.arg.id) = <<"adapter", shapeAdapters[last.arg.id], "Get">>
               /\ GetMaterialId(Self, last.arg.id).value = ShapeMaterialId(last.arg.id)
\* what holds of C10 in the code: the same without GetMaterialId
ValueQueriesAnswerShapeFirst ==
    last.op = "Query" =>
        /\ Get(Self, PrimPathOf(last.arg.id))
               = FirstOf(PrimPathOf(last.arg.id), "Get", "VtValue",
                         {"shapeAdapters", "renderItemsAdapters", "cameraAdapters",
                          "lightAdapters", "materialAdapters"})
        /\ GetTransform(Self, last.arg.id)
               = FirstOf(last.arg.id, "GetTransform", "GfMatrix4d",
                         {"shapeAdapters", "renderItemsAdapters", "cameraAdapters",
                          "lightAdapters"})
        /\ GetVisible(Self, last.arg.id)
               = FirstOf(last.arg.id, "GetVisible", "bool",
                         {"shapeAdapters", "renderItemsAdapters", "lightAdapters"})
        /\ (Has(shapeAdapters, last.arg.id) /\ Has(renderItemsAdapters, last.arg.id)) =>
               Get(Self, last.arg.id) = <<"adapter", shapeAdapters[last.arg.id], "Get">>

\* the rprims the render index holds with material id M
RprimsOf(M) ==
    {RprimIds(Self)[i] : i \in {j \in 1..Len(RprimIds(Self)) :
                                    RprimMaterialId(Self, RprimIds(Self)[j]) = M}}
\* material M is queued as retagged, has an adapter, and the frame's
\* UpdateMaterialTag reports that its classification changed
TagChangeDue(M) ==
    /\ \E i \in 1..Len(materialTagsChanged) : materialTagsChanged[i] = M
    /\ Has(materialAdapters, M)
    /\ last'.arg.ctx.tagUpdated
PrimRebuildsScheduled(M) ==
    \A X \in RprimsOf(M) :
        /\ Events(calls', "RebuildAdapterOnIdle", X) # {}
        /\ \A i \in Events(calls', "RebuildAdapterOnIdle", X) :
               calls'[i].arg = {RebuildFlagPrim} /\ calls'[i].step = "materialTags"
EnqueuedOnce(q, q2, id, e) ==
    /\ Cardinality(EntriesOf(q2, id)) = 1
    /\ q2[IndexOfId(q2, id)] = e
    /\ OthersOf(q2, id) = OthersOf(q, id)
\* C12: AddNewInstance for a shape whose master adapter exists enqueues a
\* recreate (no rebuild, no dirty mark) when the shape has one DAG path or the
\* adapter is not marked instanced, and otherwise a rebuild with the callbacks
\* flag plus one dirty mark for instancer, instance index and primvar; without a
\* master adapter it enqueues and marks nothing.
C12_AddNewInstanceEnqueuesOne ==
    [][last'.op = "AddNewInstance" =>
          LET node == last'.arg.node
              id == GetPrimPath(node, FALSE)
          IN /\ UNCHANGED <<tableVars, adapters, lightsToAdd, addedNodes, materialTagsChanged>>
             /\ ~Has(shapeAdapters, id) => (UNCHANGED queueVars /\ calls' = << >>)
             /\ Has(shapeAdapters, id) =>
                   IF NumberOfPaths(Self, node) = 1 \/ ~adapters[shapeAdapters[id]].instanced
                   THEN /\ EnqueuedOnce(adaptersToRecreate, adaptersToRecreate', id, <<id, node>>)
                        /\ UNCHANGED adaptersToRebuild
                        /\ calls' = << >>
                   ELSE /\ EnqueuedOnce(adaptersToRebuild, adaptersToRebuild', id,
                                        <<id, (IF id \in QueuedIds(adaptersToRebuild)
                                               THEN FlagsOf(adaptersToRebuild, id) ELSE {})
                                              \cup {RebuildFlagCallbacks}>>)
                        /\ UNCHANGED adaptersToRecreate
                        /\ calls' = <<[ev |-> "MarkDirty", id |-> id,
                                       arg |-> InstanceDirtyBits, step |-> ""]>>]_vars
\* the instanced master adapter of S1 has just had its callbacks queued for
\* rebuild and its prim marked dirty
C12_InstancedMasterRebuilt ==
    /\ last.op = "AddNewInstance" /\ last.arg.node = "S1"
    /\ Has(shapeAdapters, GetPrimPath("S1", FALSE))
    /\ adapters[shapeAdapters[GetPrimPath("S1", FALSE)]].instanced
    /\ Events(calls, "MarkDirty", GetPrimPath("S1", FALSE)) # {}
    /\ GetPrimPath("S1", FALSE) \in QueuedIds(adaptersToRebuild)

\* identity id is a shape adapter, and no render item, of a mesh node that has
\* no material binding
UnboundShape(id) ==
    /\ Has(shapeAdapters, id)
    /\ ~Has(renderItemsAdapters, id)
    /\ ShapeMaterial(Self, adapters[shapeAdapters[id]].node) = NullObj
PreviewForFallback ==
    /\ GetMaterialResource(Self, FallbackMaterial) = GetPreviewMaterialResource(FallbackMaterial)
    /\ GetMaterialResource(Self, FallbackMaterial) # GetDefaultValue("VtValue")
\* C13 as the spec words it: GetMaterialId of the shape adapter of a mesh node
\* with no material binding returns the fallback material path, whose material
\* resource is the preview resource and not empty.
C13_UnboundShapeGetsFallback ==
    [][(last'.op = "GetMaterialId" /\ useMeshAdapter /\ UnboundShape(last'.arg.id)) =>
          /\ GetMaterialId(Self, last'.arg.id).value = FallbackMaterial
          /\ PreviewForFallback]_vars
\* C13: unless the default-material override is set, GetMaterialId of the shape
\* adapter of a mesh node with no material binding returns the fallback material
\* path; with the override set it returns the default material path; the
\* material resource of the fallback path is the preview resource, never empty.
C13_UnboundShapeGetsFallbackUnlessOverridden ==
    [][(last'.op = "GetMaterialId" /\ useMeshAdapter /\ UnboundShape(last'.arg.id)) =>
          /\ GetMaterialId(Self, last'.arg.id).value =
                 IF useDefaultMaterial THEN MayaDefaultMaterialPath ELSE FallbackMaterial
          /\ PreviewForFallback
          /\ UNCHANGED <<tableVars, adapters>>]_vars
\* the unbound mesh S3 was added by the host, a frame created its shape adapter
\* and the renderer asked for its material id with no override set
C13_AddedMeshQueried ==
    /\ last.op = "GetMaterialId" /\ last.arg.id = GetPrimPath("S3", FALSE)
    /\ Has(shapeAdapters, last.arg.id)
    /\ ~useDefaultMaterial
    /\ GetMaterialId(Self, last.arg.id).value = FallbackMaterial

\* the shading engine bound to the entity of identity id: the one whose
\* material path its render-item adapter carries, else that of its shape
BoundMaterial(id) ==
    IF Has(renderItemsAdapters, id)
    THEN LET m == adapters[renderItemsAdapters[id]].material
         IN IF m = kInvalidMaterial THEN NullObj ELSE m[2]
    ELSE IF Has(shapeAdapters, id) THEN ShapeMaterial(Self, adapters[shapeAdapters[id]].node)
    ELSE NullObj
IsLineItem(id) ==
    /\ Has(renderItemsAdapters, id)
    /\ adapters[renderItemsAdapters[id]].primitive \in {"lines", "lineStrip"}
\* the four rules of the resolution order, for a GetMaterialId step on identity id
ResolvedInOrder(id) ==
    LET value == GetMaterialId(Self, id).value
        bound == BoundMaterial(id)
    IN IF useDefaultMaterial THEN value = MayaDefaultMaterialPath
       ELSE IF IsLineItem(id) THEN value = FallbackMaterial
       ELSE IF bound = NullObj THEN value = FallbackMaterial
       ELSE IF Has(materialAdapters, GetMaterialPath(bound))
            THEN value = GetMaterialPath(bound)
       ELSE IF CreateMaterial(Self, GetMaterialPath(bound), bound).ok
            THEN /\ value = GetMaterialPath(bound)
                 /\ Has(materialAdapters', GetMaterialPath(bound))
                 /\ Events(calls', "New", GetMaterialPath(bound)) # {}
            ELSE value = FallbackMaterial
\* C14: GetMaterialId resolves, for every render-capable entity, in the order
\* default-material override, line render item (fallback), bound material found
\* in the material table, material adapter created on demand (fallback when the
\* creation fails).
C14_MaterialIdResolutionOrder ==
    [][(/\ last'.op = "GetMaterialId"
        /\ Has(renderItemsAdapters, last'.arg.id) \/ Has(shapeAdapters, last'.arg.id))
          => ResolvedInOrder(last'.arg.id)]_vars
\* what holds of C14 in the code: the order is followed for the entities that
\* have no render-item adapter
ShapesResolveInOrder ==
    [][(/\ last'.op = "GetMaterialId"
        /\ ~Has(renderItemsAdapters, last'.arg.id) /\ Has(shapeAdapters, last'.arg.id))
          => ResolvedInOrder(last'.arg.id)]_vars

\* the queued lights that can be resolved and have no adapter yet
LightsDue ==
    {lightsToAdd[i] : i \in {j \in 1..Len(lightsToAdd) :
        /\ HasDagPath(Self, lightsToAdd[j])
        /\ ~Has(lightAdapters, GetPrimPath(lightsToAdd[j], TRUE))}}
\* C15: a queued light or added node without a DAG path does not stop the pass:
\* PreFrame does not return before its last step, the other queued lights get
\* their adapters, the queued recreates and the due rebuilds are applied.
C15_MalformedEntityDoesNotStopThePass ==
    [][last'.op = "PreFrame" =>
          /\ ~Returned(calls')
          /\ \A n \in LightsDue : Events(calls', "New", GetPrimPath(n, TRUE)) # {}
          /\ \A X \in QueuedIds(adaptersToRecreate) :
                 Events(calls', "RecreateAdapter", X) # {}
          /\ \A X \in QueuedIds(adaptersToRebuild) : RebuildDue(X) => RebuiltOnce(X)]_vars

\* C16: RemoveAdapter for an identity that is in no adapter table changes no
\* adapter table, no adapter and no pending queue, calls RemoveCallbacks and
\* RemovePrim on nothing and only logs a warning.
C16_RemovingAbsentIdIsNoOp ==
    [][(last'.op = "RemoveAdapter" /\ ~InSomeTable(last'.arg.id)) =>
          /\ UNCHANGED <<tableVars, adapters, queueVars>>
          /\ calls' = <<[ev |-> "Warn", id |-> last'.arg.id,
                         arg |-> {"RemoveAdapter"}, step |-> ""]>>]_vars
\* the shape S1 was removed before and RemoveAdapter was called on it again,
\* while other adapters exist
C16_RemovedTwice ==
    /\ last.op = "RemoveAdapter" /\ last.arg.id = GetPrimPath("S1", FALSE)
    /\ ~InSomeTable(last.arg.id)
    /\ Events(calls, "Warn", last.arg.id) # {}
    /\ Has(lightAdapters, GetPrimPath("L1", TRUE))
    /\ Has(shapeAdapters, GetPrimPath("S2", FALSE))

\* C17: a non-zero removal id for which no render-item adapter exists is a no-op
\* of HandleCompleteViewportScene: the assertion ria != nullptr of the removal
\* loop holds for every removal id of every batch.
C17_RemovalOfUnknownIdIsNoOp ==
    last.op = "HandleCompleteViewportScene" =>
        Events(calls, "AssertFailed", EmptyPath) = {}
\* what holds of C17 in the code: apart from the failed assertion, the removal
\* of an id without adapter changes nothing
UnknownRemovalChangesNothing ==
    [][(/\ last'.op = "HandleCompleteViewportScene"
        /\ last'.arg.items = << >>
        /\ playing = isPlaybackRunning
        /\ \A i \in 1..Len(last'.arg.removals) :
               ~Has(renderItemsAdaptersFast, last'.arg.removals[i]))
          => UNCHANGED <<tableVars, adapters, queueVars>>]_vars

\* how the frame creates the adapter of a queued node: the arguments it gives
\* _CreateAdapter
CreatedAs(n) ==
    IF NodeKind(n) = "light"
    THEN [kind |-> "light", tbl |-> "lightAdapters", id |-> GetPrimPath(n, TRUE), isSprim |-> TRUE]
    ELSE IF NodeKind(n) = "camera"
    THEN [kind |-> "camera", tbl |-> "cameraAdapters", id |-> GetPrimPath(n, TRUE), isSprim |-> TRUE]
    ELSE [kind |-> "shape", tbl |-> "shapeAdapters", id |-> GetPrimPath(n, FALSE), isSprim |-> FALSE]
QueuedNodes ==
    ({lightsToAdd[i] : i \in 1..Len(lightsToAdd)}
     \cup (IF useMeshAdapter THEN {addedNodes[i] : i \in 1..Len(addedNodes)} ELSE {}))
    \ {NullObj}
CreationEvents(log, id) ==
    Events(log, "New", id) \cup Events(log, "Populate", id)
    \cup Events(log, "CreateCallbacks", id)
\* C18: _CreateAdapter for a DAG path whose identity is already in the target
\* table returns an empty result and changes nothing; a frame that meets such a
\* queued node constructs no adapter for it, calls neither Populate nor
\* CreateCallbacks, and the table keeps the adapter it held, unchanged.
C18_DuplicateIsShortCircuited ==
    [][last'.op = "PreFrame" =>
          \A n \in QueuedNodes :
              LET c == CreatedAs(n) IN
              Has(Self[c.tbl], c.id) =>
                  /\ CreateAdapter(Self, n, c.kind, c.tbl, c.isSprim) = R(Self, FALSE)
                  /\ CreationEvents(calls', c.id) = {}
                  /\ Has(Self'[c.tbl], c.id)
                  /\ Self'[c.tbl][c.id] = Self[c.tbl][c.id]
                  /\ [adapters'[Self[c.tbl][c.id]] EXCEPT !.lighting = "unset"]
                       = [adapters[Self[c.tbl][c.id]] EXCEPT !.lighting = "unset"]]_vars
\* a frame has met the queued shape S1, whose adapter existed, and has created
\* the adapter of the queued S3 in the same pass
C18_DuplicateMetInFrame ==
    /\ last.op = "PreFrame"
    /\ Has(shapeAdapters, GetPrimPath("S1", FALSE))
    /\ CreationEvents(calls, GetPrimPath("S1", FALSE)) = {}
    /\ Events(calls, "New", GetPrimPath("S3", FALSE)) # {}

TablesOf(d) ==
    <<d.shapeAdapters, d.renderItemsAdapters, d.cameraAdapters, d.lightAdapters,
      d.materialAdapters, d.renderItemsAdaptersFast>>
\* the creation r of an unsupported adapter fails, leaves the tables and the
\* adapters as they are and calls nothing but the constructor
Discarded(r, id) ==
    /\ ~r.ok
    /\ TablesOf(r.d) = TablesOf(Self)
    /\ r.d.adapters = adapters
    /\ \A i \in 1..Len(r.d.calls) : r.d.calls[i].ev = "New" /\ r.d.calls[i].id = id
UnsupportedIds == {GetPrimPath("C2", TRUE), GetMaterialPath("M2")}
\* C19: a newly constructed adapter that reports IsSupported() false is
\* discarded: _CreateAdapter and _CreateMaterial change no adapter table, and no
\* operation ever calls Populate or CreateCallbacks on it or keeps it.
C19_UnsupportedIsDiscarded ==
    [][/\ Discarded(CreateCameraAdapter(Self, "C2"), GetPrimPath("C2", TRUE))
       /\ Discarded(CreateMaterial(Self, GetMaterialPath("M2"), "M2"), GetMaterialPath("M2"))
       /\ \A id \in UnsupportedIds :
              /\ Events(calls', "Populate", id) \cup Events(calls', "CreateCallbacks", id) = {}
              /\ ~InTables(PathTables', id)
              /\ \A u \in DOMAIN adapters' : adapters'[u].id # id]_vars
\* Populate, with mesh adapters, has constructed and discarded the adapters of
\* the unsupported camera C2 and of the unsupported shading engine M2 of S4
C19_UnsupportedMetInPopulate ==
    /\ last.op = "Populate"
    /\ Events(calls, "New", GetPrimPath("C2", TRUE)) # {}
    /\ Events(calls, "New", GetMaterialPath("M2")) # {}
    /\ Has(shapeAdapters, GetPrimPath("S4", FALSE))
    /\ \A id \in UnsupportedIds : ~InSomeTable(id)

\* the queued recreates whose host handle is no longer valid
StaleRecreates ==
    {adaptersToRecreate[i] : i \in {j \in 1..Len(adaptersToRecreate) :
        ~MObjectHandleIsValid(Self, adaptersToRecreate[j][2])}}
Abandoned(X, obj) ==
    /\ Events(calls', "RecreateAdapter", X) # {}
    /\ InSomeTable(X) => Events(calls', "NotRecreated", X) # {}
    /\ Events(calls', "New", X) = {}
    /\ ~InTables(PathTables', X)
    /\ \A i \in 1..Len(lightsToAdd') : lightsToAdd'[i] # obj
    /\ \A i \in 1..Len(addedNodes') : addedNodes'[i] # obj
    /\ X \notin QueuedIds(adaptersToRecreate') \cup QueuedIds(adaptersToRebuild')
\* C20: a queued recreate applied with a host handle that is no longer valid is
\* abandoned: no adapter is created for the identity, nothing about it is left
\* in or added to a pending queue, and a PreFrame that directly follows does
\* not apply it again.
C20_StaleRecreateIsAbandoned ==
    [][/\ (last'.op = "PreFrame" /\ ~Returned(calls')) =>
              \A e \in StaleRecreates : Abandoned(e[1], e[2])
       /\ last'.op = "PreFrame" =>
              \A i \in 1..Len(calls') :
                  calls'[i].ev = "RecreateAdapter" =>
                      calls'[i].id \in QueuedIds(adaptersToRecreate)]_vars
\* a deleted light, shape or material had a recreate queued and a frame dropped it
C20_StaleRecreateDropped ==
    /\ last.op = "PreFrame"
    /\ ~Returned(calls)
    /\ \E X \in {GetPrimPath("L1", TRUE), GetPrimPath("S1", FALSE), GetMaterialPath("M1")} :
           /\ Events(calls, "NotRecreated", X) # {}
           /\ nodeStatus[X[2]] = "invalid"
           /\ ~InSomeTable(X)
    /\ lightsToAdd = << >> /\ addedNodes = << >> /\ adaptersToRecreate = << >>
\* every adapter the given tables hold had RemoveCallbacks run and holds no callback
Unregistered(tabs) ==
    \A i \in 1..Len(tabs) : \A id \in DOMAIN tabs[i] :
        /\ Events(calls, "RemoveCallbacks", id) # {}
        /\ ~adapters[tabs[i][id]].callbacks
HostCallbacksRemovedOnce ==
    /\ callbacks = HostCallbacks
    /\ \A i \in 1..Len(callbacks) :
           Cardinality(Events(calls, "removeCallback", <<"callback", callbacks[i]>>)) = 1
\* C21: once the delegate is destroyed, every host callback id Populate
\* registered was removed exactly once and RemoveCallbacks ran on every adapter
\* of every table (shape, render item, camera, light, material), so that no
\* adapter still has callbacks registered.
C21_DestructionUnregistersEverything ==
    last.op = "Destroy" => HostCallbacksRemovedOnce /\ Unregistered(PathTables)
\* what the destructor does achieve: the host callbacks and every table it visits
DestructionUnregistersAllButCameras ==
    last.op = "Destroy" =>
        /\ HostCallbacksRemovedOnce
        /\ Unregistered(<<shapeAdapters, renderItemsAdapters, lightAdapters, materialAdapters>>)
\* the matrix GetTransform answers: the adapter's, or the identity by default
TransformOf(d, id) ==
    LET v == GetTransform(d, id)
    IN IF v[1] = "adapter" THEN d.adapters[v[2]].transform ELSE 0
ItemOfAdapter(u) == CHOOSE ri \in RenderItems : InternalObjectId(ri) = adapters[u].fastId
MaterialPresentAt(log, i, id) ==
    LET erases == {j \in 1..(i - 1) : /\ log[j].ev = "Erase" /\ log[j].id = id
                                      /\ log[j].arg = {"materialAdapters"}}
        creates == {j \in 1..(i - 1) : /\ log[j].ev = "CreateCallbacks" /\ log[j].id = id}
    IN \/ erases = {} /\ Has(materialAdapters, id)
       \/ \E j \in creates : \A e \in erases : e < j
MaterialCreations(log) ==
    {i \in 1..Len(log) : log[i].ev = "New" /\ log[i].arg = {"material"}}
OnePerEntry(q) == \A i, j \in 1..Len(q) : q[i] = q[j] => i = j
OnePerId(q) == \A i, j \in 1..Len(q) : q[i][1] = q[j][1] => i = j
\* C24: in every reachable state each pending-work queue holds at most one
\* entry per identity.
C24_QueuesHoldOneEntryPerIdentity ==
    /\ OnePerEntry(addedNodes) /\ OnePerEntry(lightsToAdd)
    /\ OnePerId(adaptersToRecreate) /\ OnePerId(adaptersToRebuild)
    /\ OnePerEntry(materialTagsChanged)
\* the three queues whose enqueue operation searches before it appends
KeyedQueuesHoldOneEntryPerIdentity ==
    /\ OnePerId(adaptersToRecreate) /\ OnePerId(adaptersToRebuild)
    /\ OnePerEntry(materialTagsChanged)
\* every entry of the queue went through the loop that has just run
AllSeen(q) == \A i \in 1..Len(q) : \E j \in 1..Len(frame.seen) : frame.seen[j] = q[i]
\* C25: when host callbacks run between the statements of a PreFrame, no
\* enqueued node is lost: a queue is cleared only of nodes its loop processed,
\* so that a node announced and not removed is processed or still queued.
C25_NoEntryLostUnderInterleaving ==
    [][/\ (frame.pc = "clearLights" /\ frame'.pc = "addedNodes") => AllSeen(lightsToAdd)
       /\ (frame.pc = "clearNodes" /\ frame'.pc = "rest") => AllSeen(addedNodes)]_vars
WorkPending ==
    adaptersToRecreate # << >> \/ adaptersToRebuild # << >> \/ materialTagsChanged # << >>
\* C26: with PreFrame invoked again and again, every entry of
\* _adaptersToRecreate, _adaptersToRebuild and _materialTagsChanged is
\* eventually drained, whatever the other queues hold. PreFrame is a function of
\* the delegate and the host scene, so this needs that no PreFrame which finds
\* such an entry leaves the delegate exactly as it found it: from there every
\* later PreFrame does the same and the entry stays for ever.
C26_QueuedWorkIsEventuallyDrained ==
    [][(last'.op = "PreFrame" /\ WorkPending) => delegateVars' # delegateVars]_vars
\* the material tags are drained by every PreFrame, before any statement that returns
MaterialTagsAreDrained ==
    [][last'.op = "PreFrame" => materialTagsChanged' = << >>]_vars

\* frames that reconcile the light adapters with the lights of the context,
\* after adapters were removed and lights left and re-entered the DAG
NextLightSync ==
    \/ DoPopulate
    \/ DoRemoveAdapter
    \/ NodeRemoved("L1", "detached")
    \/ NodeAdded("L1")
    \/ \E ctx \in LightContexts : DoPreFrame(ctx)
SpecLightSync == Init /\ [][NextLightSync]_vars

\* the lights of the context the reconciliation has to hold an adapter for: a
\* valid DAG path, not owned by the USD bridge, a supported light creator
ReportedLights(ctx) ==
    {n \in ctx.lights : /\ HasDagPath(Self, n) /\ ~IsUfeItemFromMayaUsd(n)
                        /\ NodeKind(n) = "light" /\ IsSupported(n)}
LightEntriesOf(tab, heap, n) == {id \in DOMAIN tab : heap[tab[id]].node = n}
LightCreations(log) ==
    {i \in 1..Len(log) : /\ log[i].ev = "New" /\ log[i].arg = {"light"}
                         /\ log[i].step = "lightSync"}
\* whether the light table holds id when event i of the log happens
LightPresentAt(log, i, id) ==
    LET erases == {j \in 1..(i - 1) : /\ log[j].ev = "Erase" /\ log[j].id = id
                                      /\ log[j].arg = {"lightAdapters"}}
        creates == {j \in 1..(i - 1) : /\ log[j].ev = "CreateCallbacks" /\ log[j].id = id}
    IN \/ erases = {} /\ Has(lightAdapters, id)
       \/ \E j \in creates : \A e \in erases : e < j
\* C27: after a PreFrame that ran its light synchronisation (HdSt, no early
\* return) every light the context reports with a valid path, not owned by the
\* USD bridge and with a supported creator has exactly one light adapter; the
\* synchronisation constructs an adapter only for a path the light table did not
\* hold; a light of the USD bridge has no adapter.
C27_ActiveLightsHaveOneAdapter ==
    [][(last'.op = "PreFrame" /\ isHdSt /\ ~Returned(calls')) =>
          /\ \A n \in ReportedLights(last'.arg.ctx) :
                 /\ Has(lightAdapters', GetPrimPath(n, TRUE))
                 /\ Cardinality(LightEntriesOf(lightAdapters', adapters', n)) = 1
          /\ \A i \in LightCreations(calls') : ~LightPresentAt(calls', i, calls'[i].id)
          /\ \A n \in LightNodes :
                 IsUfeItemFromMayaUsd(n) => LightEntriesOf(lightAdapters', adapters', n) = {}]_vars
\* the synchronisation built the adapter of a reported light while the context
\* also reported the light of the USD bridge
C27_SyncCreatedLight ==
    /\ last.op = "PreFrame" /\ isHdSt /\ ~Returned(calls)
    /\ "U1" \in last.arg.ctx.lights
    /\ \E i \in LightCreations(calls) : Has(lightAdapters, calls[i].id)

\* render-item batches with every combination of the change flags
NextItems ==
    \/ DoPopulate
    \/ \E removals \in SeqsUpTo(FastIds, MaxRemovals),
          items \in SeqsUpTo(RenderItems \X SUBSET {"geom", "changedEffect", "changedMatrix"},
                             MaxItems) :
          HandleScene(removals, items)
    \/ DoRemoveAdapter
SpecItems == Init /\ [][NextItems]_vars

\* the calls of a batch on render-item adapters, in the order they were made
ItemCalls(log) ==
    LET made == SelectSeq(log, LAMBDA e :
                    \/ e.ev \in {"SetMaterial", "UpdateFromDelta", "UpdateTransform"}
                    \/ e.ev = "New" /\ e.arg = {"renderItem"})
    IN [i \in 1..Len(made) |-> <<made[i].ev, made[i].id>>]
RECURSIVE ExpectedItemCalls(_, _, _)
\* the calls the second pass owes to the items, given the fast ids that have an
\* adapter; with skips, an item the mesh filter rejects or without a prim path
\* and without an adapter is passed over
ExpectedItemCalls(held, items, skips) ==
    IF items = << >> THEN << >>
    ELSE LET ri == Head(items)[1]
             flags == Head(items)[2]
             id == GetRenderItemPrimPath(ri)
             known == InternalObjectId(ri) \in held
             passed == \/ flags = {}
                       \/ skips /\ filterMesh(Self, ri)
                       \/ skips /\ ~known /\ id = EmptyPath
         IN IF passed THEN ExpectedItemCalls(held, Tail(items), skips)
            ELSE (IF known THEN << >> ELSE << <<"New", id>> >>)
                 \o (IF "changedEffect" \in flags THEN << <<"SetMaterial", id>> >> ELSE << >>)
                 \o << <<"UpdateFromDelta", id>> >>
                 \o (IF "changedMatrix" \in flags THEN << <<"UpdateTransform", id>> >> ELSE << >>)
                 \o ExpectedItemCalls(held \cup {InternalObjectId(ri)}, Tail(items), skips)
HeldAfterRemovals(removals) ==
    DOMAIN renderItemsAdaptersFast \ {removals[i] : i \in DOMAIN removals}
\* C28 as stated: in the second pass of HandleCompleteViewportScene an item with
\* change flags 0 causes no creation and no update, and every item with non-zero
\* flags has its adapter looked up by fast id or created, then SetMaterial iff
\* the effect flag is set, UpdateFromDelta always, UpdateTransform iff the matrix
\* flag is set, in that order.
C28_EveryFlaggedItemIsUpdated ==
    [][last'.op = "HandleCompleteViewportScene" =>
          ItemCalls(calls') =
              ExpectedItemCalls(HeldAfterRemovals(last'.arg.removals), last'.arg.items, FALSE)]_vars
\* C28 amended: the same calls in the same order for every item with non-zero
\* flags that the mesh filter does not reject and that has an adapter or a
\* non-empty prim path; every other item causes no creation and no update.
C28_FlaggedItemIsUpdatedUnlessSkipped ==
    [][last'.op = "HandleCompleteViewportScene" =>
          /\ ItemCalls(calls') =
                 ExpectedItemCalls(HeldAfterRemovals(last'.arg.removals), last'.arg.items, TRUE)
          /\ \A i \in DOMAIN last'.arg.items :
                 LET ri == last'.arg.items[i][1]
                 IN (/\ last'.arg.items[i][2] # {} /\ ~filterMesh(Self, ri)
                     /\ GetRenderItemPrimPath(ri) # EmptyPath)
                        => Has(renderItemsAdaptersFast', InternalObjectId(ri))]_vars
\* a batch created an adapter and made all three calls on it
C28_ItemCreatedAndFullyUpdated ==
    /\ last.op = "HandleCompleteViewportScene"
    /\ \E id \in {GetRenderItemPrimPath(ri) : ri \in RenderItems} :
           ItemCalls(calls) = << <<"New", id>>, <<"SetMaterial", id>>,
                                 <<"UpdateFromDelta", id>>, <<"UpdateTransform", id>> >>

\* frames that apply queued rebuilds, over shape, light, material and render-item
\* adapters
NextRebuild ==
    \/ DoPopulate
    \/ HandleScene(<< >>, << <<"ri1", {"changedEffect"}>> >>)
    \/ DoRebuildAdapterOnIdle
    \/ DoMaterialTagChanged
    \/ \E ctx \in IdleContexts : DoPreFrame(ctx)
SpecRebuild == Init /\ [][NextRebuild]_vars

\* a frame in which nothing but the rebuild queue changes tables or adapters: no
\* light or node to add, no recreate, no light in the context
QuietFrame ==
    /\ last'.op = "PreFrame" /\ ~Returned(calls')
    /\ lightsToAdd = << >> /\ addedNodes = << >> /\ adaptersToRecreate = << >>
    /\ last'.arg.ctx.lights = {}
\* the identities the rebuild loop of the frame iterates: the queue before the
\* frame and what its material tag statement scheduled
RebuildsDue ==
    QueuedIds(adaptersToRebuild)
    \cup {calls'[i].id : i \in {j \in 1..Len(calls') : /\ calls'[j].ev = "RebuildAdapterOnIdle"
                                                       /\ calls'[j].step = "materialTags"}}
RebuildFlagsDue(X) ==
    (IF X \in QueuedIds(adaptersToRebuild) THEN FlagsOf(adaptersToRebuild, X) ELSE {})
    \cup (IF Events(calls', "RebuildAdapterOnIdle", X) # {} THEN {RebuildFlagPrim} ELSE {})
RebuildCalls(log, X) ==
    LET made == SelectSeq(log, LAMBDA e :
                    /\ e.step = "rebuild" /\ e.id = X
                    /\ e.ev \in {"RemoveCallbacks", "CreateCallbacks", "RemovePrim", "Populate"})
    IN [i \in 1..Len(made) |-> made[i].ev]
RebuildCallsOwed(F) ==
    (IF RebuildFlagCallbacks \in F THEN <<"RemoveCallbacks", "CreateCallbacks">> ELSE << >>)
    \o (IF RebuildFlagPrim \in F THEN <<"RemovePrim", "Populate">> ELSE << >>)
\* C29: a frame that applies the queued rebuild of X with flags F calls
\* RemoveCallbacks then CreateCallbacks on the adapter of X iff F holds the
\* callbacks flag and RemovePrim then Populate iff F holds the prim flag; no
\* adapter is destroyed and every adapter table is as it was.
C29_RebuildAppliesFlags ==
    [][QuietFrame =>
          /\ \A X \in RebuildsDue :
                 InSomeTable(X) => RebuildCalls(calls', X) = RebuildCallsOwed(RebuildFlagsDue(X))
          /\ UNCHANGED tableVars
          /\ DOMAIN adapters' = DOMAIN adapters]_vars
\* the same for the identities of the tables the rebuild loop probes: shape,
\* light and material adapters
RebuildAppliesFlagsToProbedTables ==
    [][QuietFrame =>
          /\ \A X \in RebuildsDue :
                 InTables(<<shapeAdapters, lightAdapters, materialAdapters>>, X)
                     => RebuildCalls(calls', X) = RebuildCallsOwed(RebuildFlagsDue(X))
          /\ UNCHANGED tableVars
          /\ DOMAIN adapters' = DOMAIN adapters]_vars
RebuiltBothWays ==
    /\ last.op = "PreFrame"
    /\ \E X \in {GetPrimPath("S1", FALSE), GetPrimPath("L1", TRUE)} :
           RebuildCalls(calls, X) = RebuildCallsOwed({RebuildFlagCallbacks, RebuildFlagPrim})

PrimRebuilt(log, X) ==
    \E i, j \in 1..Len(log) :
        /\ i < j
        /\ log[i].ev = "RemovePrim" /\ log[i].id = X
        /\ log[j].ev = "Populate" /\ log[j].id = X
\* C30: a PreFrame that finds material M retagged with a changed classification
\* (HdSt, no early return) applies RemovePrim and then Populate to every rprim
\* whose material id is M, whether a shape adapter or a render-item adapter
\* holds it.
C30_RetaggedMaterialRebuildsItsPrims ==
    [][(last'.op = "PreFrame" /\ isHdSt /\ ~Returned(calls')) =>
          \A M \in {GetMaterialPath(m) : m \in ShadingEngines} :
              TagChangeDue(M) => \A X \in RprimsOf(M) : PrimRebuilt(calls', X)]_vars
\* the same for the rprims a shape adapter holds
RetaggedMaterialRebuildsItsShapes ==
    [][(last'.op = "PreFrame" /\ isHdSt /\ ~Returned(calls')) =>
          \A M \in {GetMaterialPath(m) : m \in ShadingEngines} :
              TagChangeDue(M) =>
                  \A X \in RprimsOf(M) : Has(shapeAdapters, X) => PrimRebuilt(calls', X)]_vars

\* the recreate step of the frame took X out of table tbl
RecreateErased(log, X, tbl) ==
    \E i \in 1..Len(log) : /\ log[i].ev = "Erase" /\ log[i].id = X
                           /\ log[i].arg = {tbl} /\ log[i].step = "recreate"
\* the handle queued with X is valid (and, for a DAG node, has a DAG path)
RecreateHandleValid(X) ==
    \E i \in 1..Len(adaptersToRecreate) :
        /\ adaptersToRecreate[i][1] = X
        /\ MObjectHandleIsValid(Self, adaptersToRecreate[i][2])
        /\ adaptersToRecreate[i][2] \in DagNodes => HasDagPath(Self, adaptersToRecreate[i][2])
        /\ IsSupported(adaptersToRecreate[i][2])
\* C31: after the PreFrame that applies a queued recreate of X with a valid
\* handle and a supported adapter kind, X is again in the table the recreate
\* took it from, whether the light, the shape or the material table.
C31_RecreateCompletesWithinThePass ==
    [][last'.op = "PreFrame" =>
          \A X \in QueuedIds(adaptersToRecreate) :
              RecreateHandleValid(X) =>
                  /\ RecreateErased(calls', X, "lightAdapters") => Has(lightAdapters', X)
                  /\ RecreateErased(calls', X, "shapeAdapters") => Has(shapeAdapters', X)
                  /\ RecreateErased(calls', X, "materialAdapters") => Has(materialAdapters', X)]_vars
\* the same for the shape and the material table
ShapeAndMaterialRecreateCompletes ==
    [][last'.op = "PreFrame" =>
          \A X \in QueuedIds(adaptersToRecreate) :
              RecreateHandleValid(X) =>
                  /\ RecreateErased(calls', X, "shapeAdapters") => Has(shapeAdapters', X)
                  /\ RecreateErased(calls', X, "materialAdapters") => Has(materialAdapters', X)]_vars

\* the frame marked the material id of X dirty in its default-material statement
MaterialIdMarked(log, X) ==
    \E i \in 1..Len(log) : /\ log[i].ev = "MarkDirty" /\ log[i].id = X
                           /\ log[i].step = "defaultMaterial"
                           /\ "DirtyMaterialId" \in log[i].arg
\* the material id of X is another one under the flag of the frame's context
MaterialIdFlips(X) ==
    GetMaterialId(Self, X).value
        # GetMaterialId([Self EXCEPT !.useDefaultMaterial = last'.arg.ctx.defaultMaterial],
                        X).value
\* C32: PreFrame stores the default-material flag of the context; when it differs
\* from the stored flag the material id is marked dirty on every shape adapter
\* and every render-item adapter whose GetMaterialId answer changes with the
\* flip, and when it is the same nothing is marked.
C32_DefaultMaterialFlipMarksEveryPrim ==
    [][last'.op = "PreFrame" =>
          /\ useDefaultMaterial' = last'.arg.ctx.defaultMaterial
          /\ IF last'.arg.ctx.defaultMaterial # useDefaultMaterial
             THEN \A X \in DOMAIN shapeAdapters \cup DOMAIN renderItemsAdapters :
                      MaterialIdFlips(X) => MaterialIdMarked(calls', X)
             ELSE \A i \in 1..Len(calls') : calls'[i].step # "defaultMaterial"]_vars
\* the same for the shape adapters only
DefaultMaterialFlipMarksShapes ==
    [][last'.op = "PreFrame" =>
          /\ useDefaultMaterial' = last'.arg.ctx.defaultMaterial
          /\ IF last'.arg.ctx.defaultMaterial # useDefaultMaterial
             THEN \A X \in DOMAIN shapeAdapters :
                      MaterialIdFlips(X) => MaterialIdMarked(calls', X)
             ELSE \A i \in 1..Len(calls') : calls'[i].step # "defaultMaterial"]_vars

\* C33: on a backend other than HdSt PreFrame ends after the rebuild step: it
\* switches the lighting of no light adapter, pushes no shadow matrix and builds
\* no light adapter from the lights of the context, so every light adapter that
\* was there keeps its lighting state and the light table gains nothing from the
\* context.
C33_NoLightSyncOffHdSt ==
    [][(last'.op = "PreFrame" /\ ~isHdSt) =>
          /\ \A i \in 1..Len(calls') :
                 /\ calls'[i].step # "lightSync"
                 /\ calls'[i].ev \notin {"SetLightingOn", "SetShadowProjectionMatrix"}
          /\ \A id \in DOMAIN lightAdapters \cap DOMAIN lightAdapters' :
                 lightAdapters'[id] = lightAdapters[id] =>
                     adapters'[lightAdapters'[id]].lighting = adapters[lightAdapters[id]].lighting
          /\ \A id \in DOMAIN lightAdapters' \ DOMAIN lightAdapters :
                 \E i \in Events(calls', "New", id) :
                     calls'[i].step \in {"lightsToAdd", "addedNodes", "recreate"}]_vars
\* a frame off HdSt whose context reported both lights, one of them
\* without an adapter, and which left that light without one
C33_ActiveLightLeftAlone ==
    /\ last.op = "PreFrame" /\ ~isHdSt /\ ~Returned(calls)
    /\ last.arg.ctx.lights = {"L1", "L2"}
    /\ ~Has(lightAdapters, GetPrimPath("L1", TRUE))
    /\ Has(lightAdapters, GetPrimPath("L2", TRUE))
    /\ HasDagPath(Self, "L1")

\* the adapter of DAG node n is in the table of its kind
HasAdapterOfKind(n) ==
    /\ NodeKind(n) = "light" => Has(lightAdapters', GetPrimPath(n, TRUE))
    /\ NodeKind(n) = "camera" => Has(cameraAdapters', GetPrimPath(n, TRUE))
    /\ NodeKind(n) = "mesh" => Has(shapeAdapters', GetPrimPath(n, FALSE))
NothingCreated ==
    /\ adapters' = << >> /\ addedNodes' = << >>
    /\ \A i \in 1..Len(calls') : calls'[i].ev # "New"
    /\ shapeAdapters' = << >> /\ lightAdapters' = << >> /\ cameraAdapters' = << >>
    /\ materialAdapters' = << >> /\ renderItemsAdapters' = << >>
RenderItemAdapters == {u \in DOMAIN adapters : adapters[u].kind = "renderItem"}
PlaybackNotices(log) == {i \in 1..Len(log) : log[i].ev = "SetPlaybackChanged"}
\* every existing render-item adapter is notified once, ahead of everything else
\* the batch does
NotifiedOnceFirst ==
    /\ Cardinality(PlaybackNotices(calls')) = Cardinality(RenderItemAdapters)
    /\ \A u \in RenderItemAdapters :
           \E i \in PlaybackNotices(calls') : calls'[i].id = adapters[u].id
    /\ PlaybackNotices(calls') = 1..Cardinality(PlaybackNotices(calls'))
\* C35: when the playback state observed by HandleCompleteViewportScene differs
\* from the stored one, every render-item adapter that exists is notified with
\* SetPlaybackChanged exactly once, before any removal or update of the batch,
\* and the stored state is updated; when it is the same no adapter is notified.
C35_PlaybackChangeNotifiesEveryItem ==
    [][last'.op = "HandleCompleteViewportScene" =>
          /\ isPlaybackRunning' = playing
          /\ IF playing # isPlaybackRunning THEN NotifiedOnceFirst
             ELSE PlaybackNotices(calls') = {}]_vars
\* the same from the states in which the two render-item tables agree
PlaybackChangeNotifiesWhenTablesAgree ==
    [][(last'.op = "HandleCompleteViewportScene" /\ C1_RenderItemTablesAgree) =>
          /\ isPlaybackRunning' = playing
          /\ IF playing # isPlaybackRunning THEN NotifiedOnceFirst
             ELSE PlaybackNotices(calls') = {}]_vars

\* recreates queued again with another handle, and the frames that apply them
NextRequeue ==
    \/ DoPopulate
    \/ NodeRemoved("L1", "detached")
    \/ \E p \in {<<GetPrimPath("L1", TRUE), "L1">>, <<GetPrimPath("L1", TRUE), "L2">>,
                  <<GetMaterialPath("M1"), "M1">>, <<GetMaterialPath("M1"), "M2">>} :
           /\ Populated
           /\ LET d == RecreateAdapterOnIdle(Self, p[1], p[2])
              IN QueuesWithin(d) /\ Commit(d)
           /\ Did("RecreateAdapterOnIdle", [NoArgs EXCEPT !.id = p[1], !.node = p[2]])
           /\ UNCHANGED hostVars
    \/ DoPreFrame(NoArgs.ctx)
SpecRequeue == Init /\ [][NextRequeue]_vars

\* enqueuing a recreate of X with handle h leaves one entry <<X, h>>, at the
\* place of the entry X had, and the other entries as they were
ReplacedOnEnqueue ==
    last'.op = "RecreateAdapterOnIdle" =>
        LET X == last'.arg.id
            h == last'.arg.node
            i == IndexOfId(adaptersToRecreate, X)
        IN /\ Cardinality(EntriesOf(adaptersToRecreate', X)) = 1
           /\ adaptersToRecreate'[IndexOfId(adaptersToRecreate', X)] = <<X, h>>
           /\ i > 0 => /\ Len(adaptersToRecreate') = Len(adaptersToRecreate)
                        /\ IndexOfId(adaptersToRecreate', X) = i
           /\ OthersOf(adaptersToRecreate', X) = OthersOf(adaptersToRecreate, X)
RecreatedOnce(X) ==
    /\ Cardinality(Events(calls', "RecreateAdapter", X)) = 1
    /\ \A i \in Events(calls', "RecreateAdapter", X) :
           calls'[i].arg = {adaptersToRecreate[IndexOfId(adaptersToRecreate, X)][2]}
\* C36: enqueuing a recreate of X again leaves exactly one entry for X, at the
\* position of the first, carrying the handle of the last call, and the next
\* PreFrame applies RecreateAdapter once for X, with that handle.
C36_RecreatesReplaceAndRunOnce ==
    [][/\ ReplacedOnEnqueue
       /\ last'.op = "PreFrame" =>
              \A X \in QueuedIds(adaptersToRecreate) : RecreatedOnce(X)]_vars
\* what holds of C36 in the code: the same, for the frames that do not return
\* early
RecreatesReplaceAndRunOnceUnlessReturned ==
    [][/\ ReplacedOnEnqueue
       /\ (last'.op = "PreFrame" /\ ~Returned(calls')) =>
              \A X \in QueuedIds(adaptersToRecreate) : RecreatedOnce(X)]_vars
\* a frame applied a recreate whose handle had been replaced while it was queued
RequeuedRecreateApplied ==
    /\ last.op = "PreFrame"
    /\ \E i \in Events(calls, "RecreateAdapter", GetMaterialPath("M1")) : calls[i].arg = {"M2"}

\* every CreateCallbacks of the log met an adapter without callbacks and every
\* RemoveCallbacks one with callbacks
CallbacksAlternate(log, kinds) ==
    \A i \in 1..Len(log) :
        (log[i].id # EmptyPath /\ log[i].id[1] \in kinds) =>
            /\ log[i].ev = "CreateCallbacks" => "registered" \notin log[i].arg
            /\ log[i].ev = "RemoveCallbacks" => "registered" \in log[i].arg
\* C37: on every adapter the delegate's calls of CreateCallbacks and
\* RemoveCallbacks alternate, starting with CreateCallbacks: RemoveCallbacks is
\* never called on an adapter without callbacks, CreateCallbacks never on one
\* that has them.
C37_CallbacksAlternate ==
    [][CallbacksAlternate(calls', {"rprim", "sprim", "material"})]_vars
\* the same for the adapters of lights, cameras and materials
SprimCallbacksAlternate ==
    [][CallbacksAlternate(calls', {"sprim", "material"})]_vars

\* frames that flip the x-ray display style while material adapters come and go
NextXRay ==
    \/ DoPopulate
    \/ \E xr \in BOOLEAN : DoPreFrame(Context(FALSE, xr, {}, FALSE, FALSE))
    \/ HandleScene(<< >>, << <<"ri1", {"changedEffect"}>> >>)
    \/ DoRemoveAdapter
    \/ DoRecreateAdapterOnIdle
    \/ GetMaterialIdOf(GetPrimPath("S1", FALSE))
SpecXRay == Init /\ [][NextXRay]_vars

\* C38: in every state PreFrame or a material creation leaves behind, each
\* adapter of the material table has its x-ray shading mode equal to the stored
\* x-ray flag.
C38_MaterialsFollowXRay ==
    \A id \in DOMAIN materialAdapters : adapters[materialAdapters[id]].xray = xRayEnabled
\* an operation other than PreFrame created a material adapter while x-ray was
\* enabled
C38_MaterialCreatedUnderXRay ==
    /\ xRayEnabled
    /\ last.op # "PreFrame"
    /\ \E i \in 1..Len(calls) : /\ calls[i].ev = "New" /\ calls[i].arg = {"material"}
                                 /\ Has(materialAdapters, calls[i].id)
                                 /\ adapters[materialAdapters[calls[i].id]].xray

\* the identities an adapter of DAG node n can have
IdsOfNode(n) == {GetPrimPath(n, TRUE), GetPrimPath(n, FALSE)}
NextStaleItems ==
    \/ DoPopulate
    \/ \E obj \in {"L1", "S1"}, st \in {"detached", "invalid"} : NodeRemoved(obj, st)
    \/ ShadingEngineDeleted
    \/ HandleScene(<< >>, << <<"ri1", {"changedEffect"}>> >>)
    \/ DoRecreateAdapterOnIdle
    \/ DoPreFrame(NoArgs.ctx)
SpecStaleItems == Init /\ [][NextStaleItems]_vars

\* a frame whose only effect on tables is the recreate of X with handle obj
SoleRecreate(X, obj) ==
    /\ last'.op = "PreFrame" /\ ~Returned(calls')
    /\ lightsToAdd = << >> /\ addedNodes = << >>
    /\ adaptersToRecreate = << <<X, obj>> >>
    /\ last'.arg.ctx.lights = {}
InProbedTables(X) ==
    \/ Has(lightAdapters, X)
    \/ useMeshAdapter /\ Has(shapeAdapters, X)
    \/ Has(materialAdapters, X)
====
